------------------------- MODULE ChatRequestsProofs -------------------------
(***************************************************************************)
(* The chats of ChatRequests, for any users, plans, chats and requests:    *)
(* the documents keep their types; whoever was told that a chat was made,  *)
(* accepted or written to has it in the lists of both users, in every      *)
(* interleaving and whatever failed before; and while requests come one at *)
(* a time two users have one chat, it stays in what both are shown, and    *)
(* its unread messages are those sent since the last mark.                 *)
(***************************************************************************)
EXTENDS ChatRequests, TLAPS

Labels ==
    {"checkMe", "findSingleChat", "createChat", "addToLists", "findPending", "setStatus",
     "readMarks", "writeMarks", "findChatOfSender", "insertMessage", "updateLast", "done"}

Chat ==
    [requestedBy : User, requestedTo : User, requestStatus : {"pending", "accepted", "rejected"},
     lastReadAt : [User -> Nat], lastMessage : Request \cup {NoId}]

Message == [chat : ChatId, sender : User, createdAt : Nat \ {0}]

\* A request that is at work, or "done".
Working ==
    [kind : Kinds, pc : Labels, user : User, other : User, chat : ChatId \cup {NoId},
     left : SUBSET User, marks : [User -> Nat], at : Nat]

\* The type invariant of the documents and the requests.
TypeOK ==
    /\ chats \in [ChatId -> Chat \cup {NoChat}]
    /\ messages \in [Request -> Message \cup {NoMessage}]
    /\ chatIds \in [User -> SUBSET ChatId]
    /\ connections \in [User -> SUBSET User]
    /\ now \in Nat \ {0}
    /\ req \in [Request -> {Idle, Ended} \cup Working]
    /\ unseen \in [User -> SUBSET Request]

\* Which request can be at which step; a message has its time before it is inserted.
KindOK(r) ==
    /\ req[r].pc \in {"checkMe", "findSingleChat", "createChat"} => req[r].kind = "create"
    /\ req[r].pc \in {"findPending", "setStatus"} => req[r].kind \in {"accept", "reject"}
    /\ req[r].pc \in {"readMarks", "writeMarks"} => req[r].kind = "markRead"
    /\ req[r].pc \in {"findChatOfSender", "insertMessage", "updateLast"} => req[r].kind = "send"
    /\ req[r].pc = "insertMessage" => req[r].at # Never

\* From its first write on, the chat of a request is there.
ChatOK(r) ==
    /\ req[r].pc \in Labels \ {"checkMe", "findSingleChat", "createChat"} => req[r].chat \in ChatId
    /\ req[r].pc \in {"setStatus", "writeMarks", "insertMessage", "updateLast", "addToLists", "done"} =>
          Exists(req[r].chat)

\* Whose list a request has still to write, and whose it has left.
ListOK(r) ==
    /\ req[r].pc \in {"insertMessage", "updateLast"} => req[r].left = Users(req[r].chat)
    /\ req[r].pc = "addToLists" =>
          \A u \in Users(req[r].chat) : u \in req[r].left \/ req[r].chat \in chatIds[u]
    /\ req[r].pc = "done" => \A u \in Users(req[r].chat) : req[r].chat \in chatIds[u]

RequestOK(r) == KindOK(r) /\ ChatOK(r) /\ ListOK(r)
ListInv == TypeOK /\ \A r \in Request : RequestOK(r)

-----------------------------------------------------------------------------
(* What a step does to one request and to the others.                      *)

Others(r) == \A q \in Request : q # r => req'[q] = req[q]

\* What a program counter says of the record of a request.
LEMMA AtLabel ==
    ASSUME TypeOK, NEW r \in Request
    PROVE  /\ req[r].pc \in Labels => req[r] \in Working
           /\ req[r].pc \notin Labels => req[r] \in {Idle, Ended}
           /\ r \in Active => req[r].pc \in Labels
BY DEF TypeOK, Labels, Working, Idle, Ended, Active

\* A step that writes the record of one request.
LEMMA Written ==
    ASSUME TypeOK, NEW r \in Request, NEW new \in {Idle, Ended} \cup Working,
           req' = [req EXCEPT ![r] = new]
    PROVE  /\ req' \in [Request -> {Idle, Ended} \cup Working]
           /\ req'[r] = new
           /\ Others(r)
BY DEF TypeOK, Others

\* A step that ends one request.
LEMMA EndMoves ==
    ASSUME TypeOK, NEW r \in Request, req' = End(r)
    PROVE  /\ req' \in [Request -> {Idle, Ended} \cup Working]
           /\ req'[r] = Ended /\ req'[r].pc = "ended"
           /\ Others(r)
BY Written DEF End, Ended

\* A step that moves only the program counter of one request.
LEMMA GotoMoves ==
    ASSUME TypeOK, NEW r \in Request, req[r].pc \in Labels, NEW l \in Labels, req' = Goto(r, l)
    PROVE  /\ req' \in [Request -> {Idle, Ended} \cup Working]
           /\ req'[r] = [req[r] EXCEPT !.pc = l]
           /\ req'[r].pc = l
           /\ req'[r].kind = req[r].kind /\ req'[r].user = req[r].user
           /\ req'[r].other = req[r].other /\ req'[r].chat = req[r].chat
           /\ req'[r].left = req[r].left /\ req'[r].marks = req[r].marks
           /\ req'[r].at = req[r].at
           /\ Others(r)
<1> DEFINE new == [req[r] EXCEPT !.pc = l]
<1>1. req[r] \in Working
  BY AtLabel
<1>2. /\ new \in Working /\ new.pc = l /\ new.kind = req[r].kind /\ new.user = req[r].user
      /\ new.other = req[r].other /\ new.chat = req[r].chat /\ new.left = req[r].left
      /\ new.marks = req[r].marks /\ new.at = req[r].at
  BY <1>1 DEF Working
<1>3. req' = [req EXCEPT ![r] = new]
  BY DEF Goto
<1> HIDE DEF new
<1>4. req' \in [Request -> {Idle, Ended} \cup Working] /\ req'[r] = new /\ Others(r)
  BY <1>2, <1>3, Written
<1>5. req'[r] = [req[r] EXCEPT !.pc = l]
  BY <1>4 DEF new
<1> QED BY <1>2, <1>4, <1>5

\* A chat, once created, is there and has its users; a list only grows.
Grown ==
    /\ \A c \in ChatId : Exists(c) => Exists(c)' /\ Users(c)' = Users(c)
    /\ \A u \in User : chatIds[u] \subseteq chatIds'[u]

\* A step that leaves the documents alone removes none of them.
LEMMA SameChats == ASSUME UNCHANGED <<chats, chatIds>> PROVE Grown
BY DEF Grown, Exists, Users

\* The ids in use are those of the documents.
LEMMA Existing ==
    ASSUME TypeOK, NEW c \in ChatId
    PROVE  Exists(c) <=> chats[c] \in Chat
BY DEF TypeOK, Exists, Chat, NoChat

\* A document that is changed keeps its users.
LEMMA ChatChanged ==
    ASSUME TypeOK, NEW c \in ChatId, Exists(c), NEW k \in Chat,
           k.requestedBy = chats[c].requestedBy, k.requestedTo = chats[c].requestedTo,
           chats' = [chats EXCEPT ![c] = k], UNCHANGED chatIds
    PROVE  /\ chats' \in [ChatId -> Chat \cup {NoChat}]
           /\ chats'[c] = k /\ \A d \in ChatId : d # c => chats'[d] = chats[d]
           /\ Grown
<1>1. /\ chats' \in [ChatId -> Chat \cup {NoChat}]
      /\ chats'[c] = k /\ \A d \in ChatId : d # c => chats'[d] = chats[d]
  BY DEF TypeOK
<1>2. k # NoChat
  BY DEF Chat, NoChat
<1>3. \A d \in ChatId : Exists(d) => Exists(d)' /\ Users(d)' = Users(d)
  <2> SUFFICES ASSUME NEW d \in ChatId, Exists(d) PROVE Exists(d)' /\ Users(d)' = Users(d)
    OBVIOUS
  <2>1. CASE d = c
    BY <1>1, <1>2, <2>1 DEF Exists, Users
  <2>2. CASE d # c
    BY <1>1, <2>2 DEF Exists, Users
  <2> QED BY <2>1, <2>2
<1> QED BY <1>1, <1>3 DEF Grown

\* What another request relies on stays true.
LEMMA OthersKeep ==
    ASSUME TypeOK, Grown, NEW q \in Request, RequestOK(q), req'[q] = req[q]
    PROVE  RequestOK(q)'
<1>0. req[q].pc \in Labels \ {"checkMe", "findSingleChat", "createChat"} => req[q].chat \in ChatId
  BY DEF RequestOK, ChatOK
<1>1. KindOK(q)'
  BY DEF RequestOK, KindOK
<1>2. ChatOK(q)'
  BY <1>0 DEF RequestOK, ChatOK, Grown, Labels
<1>3. req[q].pc \in {"insertMessage", "updateLast", "addToLists", "done"} =>
         /\ req[q].chat \in ChatId /\ Users(req[q].chat)' = Users(req[q].chat)
         /\ Users(req[q].chat) \subseteq User
  <2> SUFFICES ASSUME req[q].pc \in {"insertMessage", "updateLast", "addToLists", "done"}
               PROVE  /\ req[q].chat \in ChatId /\ Users(req[q].chat)' = Users(req[q].chat)
                      /\ Users(req[q].chat) \subseteq User
    OBVIOUS
  <2>1. req[q].chat \in ChatId /\ Exists(req[q].chat)
    BY <1>0 DEF RequestOK, ChatOK, Labels
  <2>2. Users(req[q].chat)' = Users(req[q].chat)
    BY <2>1 DEF Grown, Users
  <2> QED BY <2>1, <2>2, Existing DEF Users, Chat
<1>4. ListOK(q)'
  BY <1>3 DEF RequestOK, ListOK, Grown
<1> QED BY <1>1, <1>2, <1>4 DEF RequestOK

-----------------------------------------------------------------------------
(* The steps of a request.                                                 *)

\* What each step does to the documents, the messages and the requests.  The
\* first: a request arrives.
LEMMA ReceiveStep ==
    ASSUME ListInv, NEW r \in Request, Receive(r)
    PROVE  /\ TypeOK' /\ Grown /\ Others(r) /\ RequestOK(r)'
           /\ req'[r].pc \in {"checkMe", "findPending", "readMarks", "findChatOfSender"}
<1> USE DEF ListInv
<1>1. PICK kind \in Kinds, me \in User : \E arg \in Arguments(kind, me) :
          req' = [req EXCEPT ![r] = NewRequest(kind, me, arg[1], arg[2])]
  BY DEF Receive
<1>2. PICK other, c : /\ other \in User
                      /\ kind = "create" => c = NoId
                      /\ kind # "create" => c \in ChatId
                      /\ req' = [req EXCEPT ![r] = NewRequest(kind, me, other, c)]
  <2>1. PICK arg \in Arguments(kind, me) :
            req' = [req EXCEPT ![r] = NewRequest(kind, me, arg[1], arg[2])]
    BY <1>1
  <2>2. CASE kind = "create"
    <3>1. arg[1] \in User /\ arg[2] = NoId
      BY <2>2 DEF Arguments
    <3> QED BY <2>1, <2>2, <3>1
  <2>3. CASE kind # "create"
    <3>1. arg[1] \in User /\ arg[2] \in ChatId
      BY <2>3 DEF Arguments
    <3> QED BY <2>1, <2>3, <3>1
  <2> QED BY <2>2, <2>3
<1> DEFINE new == NewRequest(kind, me, other, c)
<1>3. new \in Working
  BY <1>2 DEF NewRequest, FirstStep, Working, Kinds, Labels, NoMarks, Never
<1>4. /\ new.chat = c /\ new.kind = kind /\ new.pc = FirstStep(kind)
  BY DEF NewRequest
<1> HIDE DEF new
<1>5. /\ req' \in [Request -> {Idle, Ended} \cup Working]
      /\ req'[r] = new /\ Others(r)
  BY <1>2, <1>3, Written DEF new
<1>6. RequestOK(r)'
  <2>1. KindOK(r)'
    BY <1>4, <1>5 DEF KindOK, FirstStep, Kinds
  <2>2. ChatOK(r)'
    BY <1>2, <1>4, <1>5 DEF ChatOK, FirstStep, Kinds
  <2>3. ListOK(r)'
    BY <1>4, <1>5 DEF ListOK, FirstStep, Kinds
  <2> QED BY <2>1, <2>2, <2>3 DEF RequestOK
<1>7. TypeOK' /\ Grown
  BY <1>5, SameChats DEF Receive, TypeOK, documents
<1>8. req'[r].pc \in {"checkMe", "findPending", "readMarks", "findChatOfSender"}
  BY <1>4, <1>5 DEF FirstStep, Kinds
<1> QED BY <1>5, <1>6, <1>7, <1>8

\* A request that ends has nothing left to see to.
LEMMA EndedOK == ASSUME NEW r, req'[r].pc = "ended" PROVE RequestOK(r)'
BY DEF RequestOK, KindOK, ChatOK, ListOK, Labels

\* The steps that only read: the request goes on to a label or ends.
LEMMA ReadStep ==
    ASSUME ListInv, NEW r \in Request,
           CheckMe(r) \/ FindSingleChat(r) \/ FindPending(r)
    PROVE  TypeOK' /\ Grown /\ Others(r) /\ RequestOK(r)'
<1> USE DEF ListInv
<1>0. RequestOK(r) /\ UNCHANGED <<documents, environment, unseen>>
  BY DEF CheckMe, FindSingleChat, FindPending
<1>1. CASE req' = End(r)
  BY <1>0, <1>1, EndMoves, EndedOK, SameChats DEF TypeOK, documents, environment
<1>2. CASE CheckMe(r) /\ req' = Goto(r, "findSingleChat")
  <2>1. req[r].pc \in Labels /\ req[r].pc = "checkMe"
    BY <1>2 DEF CheckMe, Labels
  <2>2. /\ req' \in [Request -> {Idle, Ended} \cup Working] /\ Others(r)
        /\ req'[r].pc = "findSingleChat" /\ req'[r].kind = req[r].kind
    BY <1>2, <2>1, GotoMoves DEF Labels
  <2>3. RequestOK(r)'
    BY <1>0, <2>1, <2>2 DEF RequestOK, KindOK, ChatOK, ListOK, Labels
  <2> QED BY <1>0, <2>2, <2>3, SameChats DEF TypeOK, documents, environment
<1>3. CASE FindSingleChat(r) /\ req' = Goto(r, "createChat")
  <2>1. req[r].pc \in Labels /\ req[r].pc = "findSingleChat"
    BY <1>3 DEF FindSingleChat, Labels
  <2>2. /\ req' \in [Request -> {Idle, Ended} \cup Working] /\ Others(r)
        /\ req'[r].pc = "createChat" /\ req'[r].kind = req[r].kind
    BY <1>3, <2>1, GotoMoves DEF Labels
  <2>3. RequestOK(r)'
    BY <1>0, <2>1, <2>2 DEF RequestOK, KindOK, ChatOK, ListOK, Labels
  <2> QED BY <1>0, <2>2, <2>3, SameChats DEF TypeOK, documents, environment
<1>4. CASE FindPending(r) /\ req' = Goto(r, "setStatus") /\ PendingFor(req[r].user, req[r].chat)
  <2>1. req[r].pc \in Labels /\ req[r].pc = "findPending"
    BY <1>4 DEF FindPending, Labels
  <2>2. /\ req' \in [Request -> {Idle, Ended} \cup Working] /\ Others(r)
        /\ req'[r].pc = "setStatus" /\ req'[r].kind = req[r].kind /\ req'[r].chat = req[r].chat
    BY <1>4, <2>1, GotoMoves DEF Labels
  <2>3. req[r].chat \in ChatId /\ Exists(req[r].chat)
    BY <1>0, <1>4, <2>1 DEF RequestOK, ChatOK, PendingFor
  <2>4. ChatOK(r)'
    BY <1>0, <2>2, <2>3 DEF ChatOK, Exists, documents
  <2>5. RequestOK(r)'
    BY <1>0, <2>1, <2>2, <2>4 DEF RequestOK, KindOK, ListOK
  <2> QED BY <1>0, <2>2, <2>5, SameChats DEF TypeOK, documents, environment
<1> QED BY <1>1, <1>2, <1>3, <1>4 DEF CheckMe, FindSingleChat, FindPending

\* createSingleChat inserts its document under an id of its own.
LEMMA CreateStep ==
    ASSUME ListInv, NEW r \in Request, CreateChat(r)
    PROVE  /\ TypeOK' /\ Grown /\ Others(r) /\ RequestOK(r)'
           /\ \E c \in ChatId :
                 /\ ~Exists(c)
                 /\ chats'[c] = NewChat(req[r].user, req[r].other, "accepted")
                 /\ \A d \in ChatId : d # c => chats'[d] = chats[d]
                 /\ req'[r].chat = c
           /\ req'[r].pc = "addToLists" /\ req'[r].kind = req[r].kind
<1> USE DEF ListInv
<1>1. PICK c \in ChatId :
          /\ ~Exists(c)
          /\ chats' = [chats EXCEPT ![c] = NewChat(req[r].user, req[r].other, "accepted")]
          /\ req' = [req EXCEPT ![r].chat = c, ![r].pc = "addToLists",
                                ![r].left = {req[r].user, req[r].other}]
  BY DEF CreateChat
<1>2. req[r] \in Working /\ req[r].pc = "createChat"
  BY AtLabel DEF CreateChat, Labels
<1>3. req[r].user \in User /\ req[r].other \in User /\ req[r].kind = "create"
  BY <1>2 DEF Working, RequestOK, KindOK
<1> DEFINE k == NewChat(req[r].user, req[r].other, "accepted")
           new == [req[r] EXCEPT !.chat = c, !.pc = "addToLists",
                                 !.left = {req[r].user, req[r].other}]
<1>4. k \in Chat /\ {k.requestedBy, k.requestedTo} = {req[r].user, req[r].other}
  BY <1>3 DEF NewChat, Chat, NoMarks, Never
<1>5. /\ new \in Working /\ new.chat = c /\ new.pc = "addToLists" /\ new.kind = req[r].kind
      /\ new.left = {req[r].user, req[r].other}
  BY <1>2, <1>3 DEF Working, Labels
<1>6. chats' = [chats EXCEPT ![c] = k] /\ req' = [req EXCEPT ![r] = new]
  BY <1>1
<1> HIDE DEF k, new
<1>7. req' \in [Request -> {Idle, Ended} \cup Working] /\ req'[r] = new /\ Others(r)
  BY <1>5, <1>6, Written
<1>8. /\ chats' \in [ChatId -> Chat \cup {NoChat}]
      /\ chats'[c] = k /\ \A d \in ChatId : d # c => chats'[d] = chats[d]
  BY <1>4, <1>6 DEF TypeOK
<1>9. UNCHANGED <<messages, chatIds, environment, unseen>>
  BY DEF CreateChat
<1>10. TypeOK'
  BY <1>7, <1>8, <1>9 DEF TypeOK, environment
<1>11. Grown
  <2>1. \A d \in ChatId : Exists(d) => chats'[d] = chats[d]
    BY <1>1, <1>8
  <2> QED BY <1>9, <2>1 DEF Grown, Exists, Users
<1>12. RequestOK(r)'
  <2>1. Exists(c)' /\ Users(c)' = new.left
    BY <1>4, <1>5, <1>8 DEF Exists, Users, Chat, NoChat
  <2>2. KindOK(r)' /\ ChatOK(r)'
    BY <1>3, <1>5, <1>7, <2>1 DEF KindOK, ChatOK
  <2>3. ListOK(r)'
    BY <1>5, <1>7, <2>1 DEF ListOK
  <2> QED BY <2>2, <2>3 DEF RequestOK
<1> QED BY <1>1, <1>5, <1>7, <1>8, <1>10, <1>11, <1>12 DEF k

\* The lists of both users get the chat.
LEMMA AddStep ==
    ASSUME ListInv, NEW r \in Request, AddToLists(r)
    PROVE  /\ TypeOK' /\ Grown /\ Others(r) /\ RequestOK(r)'
           /\ req'[r].pc \in {"addToLists", "done"}
           /\ req'[r].kind = req[r].kind /\ req'[r].chat = req[r].chat
<1> USE DEF ListInv
<1>1. PICK u \in req[r].left :
          /\ chatIds' = [chatIds EXCEPT ![u] = @ \cup {req[r].chat}]
          /\ req' = [req EXCEPT ![r].left = @ \ {u},
                                ![r].pc = IF req[r].left = {u} THEN "done" ELSE @]
  BY DEF AddToLists
<1>2. /\ req[r] \in Working /\ req[r].pc = "addToLists"
      /\ UNCHANGED <<chats, messages, environment, unseen>>
  BY AtLabel DEF AddToLists, Labels
<1>3. /\ req[r].chat \in ChatId /\ Exists(req[r].chat) /\ u \in User
      /\ \A v \in Users(req[r].chat) : v \in req[r].left \/ req[r].chat \in chatIds[v]
  BY <1>2 DEF RequestOK, ChatOK, ListOK, Labels, Working
<1> DEFINE new == [req[r] EXCEPT !.left = @ \ {u},
                                 !.pc = IF req[r].left = {u} THEN "done" ELSE @]
<1>4. /\ new \in Working /\ new.kind = req[r].kind /\ new.chat = req[r].chat
      /\ new.left = req[r].left \ {u}
      /\ new.pc = IF req[r].left = {u} THEN "done" ELSE "addToLists"
  BY <1>2 DEF Working, Labels
<1>5. req' = [req EXCEPT ![r] = new]
  BY <1>1
<1> HIDE DEF new
<1>6. req' \in [Request -> {Idle, Ended} \cup Working] /\ req'[r] = new /\ Others(r)
  BY <1>4, <1>5, Written
<1>7. /\ chatIds' \in [User -> SUBSET ChatId] /\ req[r].chat \in chatIds'[u]
      /\ \A v \in User : chatIds[v] \subseteq chatIds'[v]
  BY <1>1, <1>3 DEF TypeOK
<1>8. TypeOK'
  BY <1>2, <1>6, <1>7 DEF TypeOK, environment
<1>9. Grown
  BY <1>2, <1>7 DEF Grown, Exists, Users
<1>10. RequestOK(r)'
  <2>1. KindOK(r)'
    BY <1>2, <1>4, <1>6 DEF KindOK
  <2>2. ChatOK(r)'
    BY <1>2, <1>3, <1>4, <1>6 DEF ChatOK, Exists
  <2>3. Users(req[r].chat) \subseteq User
    BY <1>3, Existing DEF Users, Chat
  <2>4. \A v \in Users(req[r].chat) : v \in new.left \/ req[r].chat \in chatIds'[v]
    BY <1>3, <1>4, <1>7, <2>3
  <2>5. new.pc = "done" => new.left = {}
    BY <1>4
  <2>6. Users(req[r].chat)' = Users(req[r].chat)
    BY <1>2, <1>4, <1>6 DEF Users
  <2>7. new.pc \in {"addToLists", "done"}
    BY <1>4
  <2>8. ListOK(r)'
    BY <1>4, <1>6, <2>4, <2>5, <2>6, <2>7 DEF ListOK
  <2> QED BY <2>1, <2>2, <2>8 DEF RequestOK
<1>11. new.pc \in {"addToLists", "done"}
  BY <1>4
<1> QED BY <1>4, <1>6, <1>8, <1>9, <1>10, <1>11

\* A write of the status: the chat keeps the rest.
LEMMA StatusStep ==
    ASSUME ListInv, NEW r \in Request, SetStatus(r)
    PROVE  /\ TypeOK' /\ Grown /\ Others(r) /\ RequestOK(r)'
           /\ req[r].chat \in ChatId /\ Exists(req[r].chat)
           /\ \A d \in ChatId : d # req[r].chat => chats'[d] = chats[d]
           /\ chats'[req[r].chat].lastReadAt = chats[req[r].chat].lastReadAt
           /\ req'[r].pc = "addToLists" => /\ chats'[req[r].chat].requestStatus = "accepted"
                                           /\ req'[r].chat = req[r].chat
           /\ req'[r].pc \in {"addToLists", "ended"}
<1> USE DEF ListInv
<1>1. req[r] \in Working /\ req[r].pc = "setStatus"
  BY AtLabel DEF SetStatus, Labels
<1>2. PICK c \in ChatId : /\ c = req[r].chat /\ Exists(c) /\ chats[c] \in Chat
                         /\ Users(c) \subseteq User
  <2>1. req[r].chat \in ChatId /\ Exists(req[r].chat)
    BY <1>1 DEF RequestOK, ChatOK, Labels
  <2> QED BY <2>1, Existing DEF Users, Chat
<1>3. UNCHANGED <<messages, chatIds, environment, unseen>>
  BY DEF SetStatus
<1>4. ASSUME NEW s \in {"accepted", "rejected"},
             chats' = [chats EXCEPT ![req[r].chat].requestStatus = s]
      PROVE  /\ chats' \in [ChatId -> Chat \cup {NoChat}]
             /\ chats'[c].requestStatus = s /\ chats'[c].lastReadAt = chats[c].lastReadAt
             /\ \A d \in ChatId : d # c => chats'[d] = chats[d]
             /\ Grown /\ Exists(c)' /\ Users(c)' = Users(c)
  <2> DEFINE k == [chats[c] EXCEPT !.requestStatus = s]
  <2>1. /\ k \in Chat /\ k.requestStatus = s /\ k.lastReadAt = chats[c].lastReadAt
        /\ k.requestedBy = chats[c].requestedBy /\ k.requestedTo = chats[c].requestedTo
    BY <1>2 DEF Chat
  <2>2. chats' = [chats EXCEPT ![c] = k] /\ chatIds' = chatIds
    BY <1>2, <1>3, <1>4
  <2> HIDE DEF k
  <2>3. /\ chats' \in [ChatId -> Chat \cup {NoChat}] /\ chats'[c] = k
        /\ \A d \in ChatId : d # c => chats'[d] = chats[d]
        /\ Grown
    BY <1>2, <2>1, <2>2, ChatChanged
  <2>5. Exists(c)' /\ Users(c)' = Users(c)
    BY <1>2, <2>1, <2>3 DEF Grown, Exists, Users, Chat, NoChat
  <2> QED BY <2>1, <2>3, <2>5
<1>5. CASE /\ chats' = [chats EXCEPT ![req[r].chat].requestStatus = "accepted"]
           /\ req' = [req EXCEPT ![r].left = Users(req[r].chat), ![r].pc = "addToLists"]
           /\ req[r].kind = "accept"
  <2> DEFINE new == [req[r] EXCEPT !.left = Users(req[r].chat), !.pc = "addToLists"]
  <2>1. /\ new \in Working /\ new.chat = c /\ new.pc = "addToLists" /\ new.left = Users(c)
        /\ new.kind = "accept"
    BY <1>1, <1>2, <1>5 DEF Working, Labels
  <2>2. req' = [req EXCEPT ![r] = new]
    BY <1>5
  <2> HIDE DEF new
  <2>3. req' \in [Request -> {Idle, Ended} \cup Working] /\ req'[r] = new /\ Others(r)
    BY <2>1, <2>2, Written
  <2>4. /\ chats' \in [ChatId -> Chat \cup {NoChat}] /\ Grown
        /\ Exists(c)' /\ Users(c)' = Users(c)
    BY <1>4, <1>5
  <2>5. TypeOK'
    BY <1>3, <2>3, <2>4 DEF TypeOK, environment
  <2>6. KindOK(r)' /\ ChatOK(r)' /\ ListOK(r)'
    BY <1>2, <2>1, <2>3, <2>4 DEF KindOK, ChatOK, ListOK, Exists, Users
  <2> QED BY <1>2, <1>4, <1>5, <2>1, <2>3, <2>4, <2>5, <2>6 DEF RequestOK
<1>6. CASE /\ chats' = [chats EXCEPT ![req[r].chat].requestStatus = "rejected"]
           /\ req' = End(r)
  <2>1. /\ req' \in [Request -> {Idle, Ended} \cup Working] /\ req'[r].pc = "ended" /\ Others(r)
    BY <1>6, EndMoves
  <2>2. chats' \in [ChatId -> Chat \cup {NoChat}] /\ Grown
    BY <1>4, <1>6
  <2>3. TypeOK'
    BY <1>3, <2>1, <2>2 DEF TypeOK, environment
  <2> QED BY <1>2, <1>4, <1>6, <2>1, <2>2, <2>3, EndedOK
<1> QED BY <1>5, <1>6 DEF SetStatus

\* The marks a markRead computes: those of the chat, with its own at now.
LEMMA ReadMarksStep ==
    ASSUME ListInv, NEW r \in Request, ReadMarks(r)
    PROVE  /\ TypeOK' /\ Grown /\ Others(r) /\ RequestOK(r)'
           /\ req'[r].pc \in {"writeMarks", "ended"}
           /\ req'[r].pc = "writeMarks" =>
                 /\ req'[r].chat = req[r].chat /\ req'[r].user = req[r].user
                 /\ req'[r].chat \in ChatId /\ Exists(req'[r].chat) /\ req'[r].user \in User
                 /\ req'[r].marks = [chats[req[r].chat].lastReadAt EXCEPT ![req[r].user] = now]
<1> USE DEF ListInv
<1>1. /\ req[r] \in Working /\ req[r].pc = "readMarks"
      /\ UNCHANGED <<documents, environment, unseen>>
  BY AtLabel DEF ReadMarks, Labels
<1>2. CASE req' = End(r)
  <2>1. /\ req' \in [Request -> {Idle, Ended} \cup Working] /\ req'[r].pc = "ended" /\ Others(r)
    BY <1>2, EndMoves
  <2>2. TypeOK' /\ Grown
    BY <1>1, <2>1, SameChats DEF TypeOK, documents, environment
  <2> QED BY <2>1, <2>2, EndedOK
<1>3. CASE /\ InChat(req[r].user, req[r].chat)
           /\ req' = [req EXCEPT ![r].marks = [chats[req[r].chat].lastReadAt
                                                  EXCEPT ![req[r].user] = now],
                                 ![r].pc = "writeMarks"]
  <2>1. PICK c \in ChatId : c = req[r].chat /\ Exists(c) /\ chats[c] \in Chat
    BY <1>1, <1>3, Existing DEF RequestOK, ChatOK, Labels, InChat
  <2>2. PICK marks \in [User -> Nat] : marks = [chats[c].lastReadAt EXCEPT ![req[r].user] = now]
    <3>1. chats[c].lastReadAt \in [User -> Nat] /\ now \in Nat
      BY <2>1 DEF Chat, TypeOK
    <3> QED BY <3>1
  <2> DEFINE new == [req[r] EXCEPT !.marks = marks, !.pc = "writeMarks"]
  <2>3. /\ new \in Working /\ new.pc = "writeMarks" /\ new.chat = c /\ new.user = req[r].user
        /\ new.kind = req[r].kind /\ new.marks = marks /\ new.user \in User
    BY <1>1, <2>1 DEF Working, Labels
  <2>4. req' = [req EXCEPT ![r] = new]
    BY <1>3, <2>1, <2>2
  <2> HIDE DEF new
  <2>5. req' \in [Request -> {Idle, Ended} \cup Working] /\ req'[r] = new /\ Others(r)
    BY <2>3, <2>4, Written
  <2>6. TypeOK' /\ Grown
    BY <1>1, <2>5, SameChats DEF TypeOK, documents, environment
  <2>7. req[r].kind = "markRead" /\ Exists(c)'
    BY <1>1, <2>1 DEF RequestOK, KindOK, Exists, documents
  <2>8. RequestOK(r)'
    BY <2>1, <2>3, <2>5, <2>7 DEF RequestOK, KindOK, ChatOK, ListOK, Exists
  <2> QED BY <2>1, <2>2, <2>3, <2>5, <2>6, <2>8
<1> QED BY <1>2, <1>3 DEF ReadMarks

\* markChatRead writes the marks it has made of those it read.
LEMMA WriteMarksStep ==
    ASSUME ListInv, NEW r \in Request, WriteMarks(r)
    PROVE  /\ TypeOK' /\ Grown /\ Others(r) /\ RequestOK(r)' /\ req'[r].pc = "ended"
           /\ req[r].chat \in ChatId /\ Exists(req[r].chat) /\ req[r].user \in User
           /\ \A d \in ChatId : d # req[r].chat => chats'[d] = chats[d]
           /\ chats'[req[r].chat].lastReadAt = req[r].marks
           /\ chats'[req[r].chat].requestStatus = chats[req[r].chat].requestStatus
           /\ unseen'[req[r].user] = {m \in unseen[req[r].user] : messages[m].chat # req[r].chat}
           /\ \A u \in User : u # req[r].user => unseen'[u] = unseen[u]
<1> USE DEF ListInv
<1>1. /\ req[r] \in Working /\ req[r].pc = "writeMarks" /\ req' = End(r)
      /\ UNCHANGED <<messages, chatIds, environment>>
  BY AtLabel DEF WriteMarks, Labels
<1>2. PICK c \in ChatId : c = req[r].chat /\ Exists(c) /\ chats[c] \in Chat
  BY <1>1, Existing DEF RequestOK, ChatOK, Labels
<1>3. req[r].user \in User /\ req[r].marks \in [User -> Nat]
  BY <1>1 DEF Working
<1> DEFINE k == [chats[c] EXCEPT !.lastReadAt = req[r].marks]
<1>4. /\ k \in Chat /\ k.requestStatus = chats[c].requestStatus /\ k.lastReadAt = req[r].marks
      /\ k.requestedBy = chats[c].requestedBy /\ k.requestedTo = chats[c].requestedTo
  BY <1>2, <1>3 DEF Chat
<1>5. chats' = [chats EXCEPT ![c] = k]
  BY <1>2 DEF WriteMarks
<1> HIDE DEF k
<1>6. /\ chats' \in [ChatId -> Chat \cup {NoChat}] /\ chats'[c] = k
      /\ \A d \in ChatId : d # c => chats'[d] = chats[d]
      /\ Grown
  BY <1>1, <1>2, <1>4, <1>5, ChatChanged
<1>7. /\ unseen' \in [User -> SUBSET Request]
      /\ unseen'[req[r].user] = {m \in unseen[req[r].user] : messages[m].chat # req[r].chat}
      /\ \A u \in User : u # req[r].user => unseen'[u] = unseen[u]
  BY <1>3 DEF WriteMarks, TypeOK
<1>8. req' \in [Request -> {Idle, Ended} \cup Working] /\ req'[r].pc = "ended" /\ Others(r)
  BY <1>1, EndMoves
<1>9. TypeOK'
  BY <1>1, <1>6, <1>7, <1>8 DEF TypeOK, environment
<1> QED BY <1>2, <1>3, <1>4, <1>6, <1>7, <1>8, <1>9, EndedOK

\* A send finds its chat, and takes its time.
LEMMA FindChatStep ==
    ASSUME ListInv, NEW r \in Request, FindChatOfSender(r)
    PROVE  /\ TypeOK' /\ Grown /\ Others(r) /\ RequestOK(r)'
           /\ req'[r].pc \in {"insertMessage", "ended"}
           /\ req'[r].pc = "insertMessage" =>
                 /\ req'[r].chat = req[r].chat /\ req[r].chat \in ChatId /\ Exists(req[r].chat)
                 /\ req'[r].at = now
<1> USE DEF ListInv
<1>1. /\ req[r] \in Working /\ req[r].pc = "findChatOfSender"
      /\ UNCHANGED <<documents, environment, unseen>>
  BY AtLabel DEF FindChatOfSender, Labels
<1>2. CASE req' = End(r)
  <2>1. /\ req' \in [Request -> {Idle, Ended} \cup Working] /\ req'[r].pc = "ended" /\ Others(r)
    BY <1>2, EndMoves
  <2>2. TypeOK' /\ Grown
    BY <1>1, <2>1, SameChats DEF TypeOK, documents, environment
  <2> QED BY <2>1, <2>2, EndedOK
<1>3. CASE /\ InChat(req[r].user, req[r].chat)
           /\ req' = [req EXCEPT ![r].at = now, ![r].pc = "insertMessage",
                                 ![r].left = Users(req[r].chat)]
  <2>1. PICK c \in ChatId : c = req[r].chat /\ Exists(c) /\ Users(c) \subseteq User
    BY <1>1, <1>3, Existing DEF RequestOK, ChatOK, Labels, InChat, Users, Chat
  <2> DEFINE new == [req[r] EXCEPT !.at = now, !.pc = "insertMessage", !.left = Users(c)]
  <2>2. /\ new \in Working /\ new.pc = "insertMessage" /\ new.chat = c /\ new.at = now
        /\ new.kind = req[r].kind /\ new.left = Users(c) /\ now # Never
    BY <1>1, <2>1 DEF Working, Labels, TypeOK, Never
  <2>3. req' = [req EXCEPT ![r] = new]
    BY <1>3, <2>1
  <2> HIDE DEF new
  <2>4. req' \in [Request -> {Idle, Ended} \cup Working] /\ req'[r] = new /\ Others(r)
    BY <2>2, <2>3, Written
  <2>5. TypeOK' /\ Grown
    BY <1>1, <2>4, SameChats DEF TypeOK, documents, environment
  <2>6. req[r].kind = "send" /\ Exists(c)' /\ Users(c)' = Users(c)
    BY <1>1, <2>1 DEF RequestOK, KindOK, Exists, Users, documents
  <2>7. RequestOK(r)'
    BY <2>1, <2>2, <2>4, <2>6 DEF RequestOK, KindOK, ChatOK, ListOK, Exists, Users
  <2> QED BY <2>1, <2>2, <2>4, <2>5, <2>7
<1> QED BY <1>2, <1>3 DEF FindChatOfSender

\* The message of a send is stored.
LEMMA InsertStep ==
    ASSUME ListInv, NEW r \in Request, InsertMessage(r)
    PROVE  /\ TypeOK' /\ Grown /\ Others(r) /\ RequestOK(r)'
           /\ req[r].chat \in ChatId /\ Exists(req[r].chat) /\ req[r].user \in User
           /\ messages'[r] = [chat |-> req[r].chat, sender |-> req[r].user,
                              createdAt |-> req[r].at]
           /\ \A m \in Request : m # r => messages'[m] = messages[m]
           /\ \A u \in User : unseen'[u] = IF u \in Users(req[r].chat) \ {req[r].user}
                                           THEN unseen[u] \cup {r} ELSE unseen[u]
           /\ req'[r].pc = "updateLast" /\ req'[r].kind = "send"
<1> USE DEF ListInv
<1>1. /\ req[r] \in Working /\ req[r].pc = "insertMessage"
      /\ UNCHANGED <<chats, chatIds, environment>>
  BY AtLabel DEF InsertMessage, Labels
<1>2. PICK c \in ChatId : c = req[r].chat /\ Exists(c) /\ req[r].left = Users(c)
  BY <1>1 DEF RequestOK, ChatOK, ListOK, Labels
<1>3. req[r].user \in User /\ req[r].kind = "send" /\ req[r].at \in Nat \ {Never}
  BY <1>1 DEF Working, RequestOK, KindOK
<1> DEFINE new == [req[r] EXCEPT !.at = Never, !.pc = "updateLast"]
<1>4. /\ new \in Working /\ new.pc = "updateLast" /\ new.chat = c /\ new.kind = "send"
      /\ new.left = Users(c)
  BY <1>1, <1>2, <1>3 DEF Working, Labels, Never
<1>5. req' = [req EXCEPT ![r] = new]
  BY DEF InsertMessage
<1> HIDE DEF new
<1>6. req' \in [Request -> {Idle, Ended} \cup Working] /\ req'[r] = new /\ Others(r)
  BY <1>4, <1>5, Written
<1>7. /\ messages'[r] = [chat |-> req[r].chat, sender |-> req[r].user, createdAt |-> req[r].at]
      /\ \A m \in Request : m # r => messages'[m] = messages[m]
      /\ messages' = [m \in Request |-> messages'[m]]
  BY DEF InsertMessage, TypeOK
<1>8. /\ unseen' \in [User -> SUBSET Request]
      /\ \A u \in User : unseen'[u] = IF u \in Users(req[r].chat) \ {req[r].user}
                                      THEN unseen[u] \cup {r} ELSE unseen[u]
  BY DEF InsertMessage, TypeOK
<1>9. TypeOK'
  <2>1. messages'[r] \in Message
    BY <1>2, <1>3, <1>7 DEF Message, Never
  <2>2. messages' \in [Request -> Message \cup {NoMessage}]
    BY <1>7, <2>1 DEF TypeOK
  <2> QED BY <1>1, <1>6, <1>8, <2>2 DEF TypeOK, environment
<1>10. Grown
  BY <1>1, SameChats
<1>11. RequestOK(r)'
  <2>1. Exists(c)' /\ Users(c)' = Users(c)
    BY <1>1, <1>2 DEF Exists, Users
  <2> QED BY <1>2, <1>4, <1>6, <2>1 DEF RequestOK, KindOK, ChatOK, ListOK, Exists, Users
<1> QED BY <1>2, <1>3, <1>4, <1>6, <1>7, <1>8, <1>9, <1>10, <1>11

\* lastMessage is updated.
LEMMA LastStep ==
    ASSUME ListInv, NEW r \in Request, UpdateLast(r)
    PROVE  /\ TypeOK' /\ Grown /\ Others(r) /\ RequestOK(r)'
           /\ \A d \in ChatId : Exists(d) => /\ chats'[d].lastReadAt = chats[d].lastReadAt
                                             /\ chats'[d].requestStatus = chats[d].requestStatus
           /\ \A d \in ChatId : Exists(d)' <=> Exists(d)
           /\ req'[r].pc = "addToLists" /\ req'[r].kind = "send"
<1> USE DEF ListInv
<1>1. /\ req[r].pc = "updateLast" /\ req[r].pc \in Labels /\ req' = Goto(r, "addToLists")
      /\ UNCHANGED <<messages, chatIds, environment, unseen>>
  BY DEF UpdateLast, Labels
<1>2. PICK c \in ChatId : /\ c = req[r].chat /\ Exists(c) /\ chats[c] \in Chat
                          /\ req[r].left = Users(c)
  BY <1>1, Existing DEF RequestOK, ChatOK, ListOK
<1> DEFINE k == [chats[c] EXCEPT !.lastMessage = r]
<1>3. /\ k \in Chat /\ k.requestStatus = chats[c].requestStatus
      /\ k.lastReadAt = chats[c].lastReadAt
      /\ k.requestedBy = chats[c].requestedBy /\ k.requestedTo = chats[c].requestedTo
  BY <1>2 DEF Chat
<1>4. chats' = [chats EXCEPT ![c] = k]
  BY <1>2 DEF UpdateLast
<1> HIDE DEF k
<1>5. /\ chats' \in [ChatId -> Chat \cup {NoChat}] /\ chats'[c] = k
      /\ \A d \in ChatId : d # c => chats'[d] = chats[d]
      /\ Grown
  BY <1>1, <1>2, <1>3, <1>4, ChatChanged
<1>6. /\ req' \in [Request -> {Idle, Ended} \cup Working] /\ Others(r)
      /\ req'[r].pc = "addToLists" /\ req'[r].kind = req[r].kind
      /\ req'[r].chat = c /\ req'[r].left = Users(c)
  BY <1>1, <1>2, GotoMoves DEF Labels
<1>7. TypeOK'
  BY <1>1, <1>5, <1>6 DEF TypeOK, environment
<1>8. req[r].kind = "send"
  BY <1>1 DEF RequestOK, KindOK
<1>9. RequestOK(r)'
  <2>1. Exists(c)' /\ Users(c)' = Users(c)
    BY <1>2, <1>5 DEF Grown
  <2> QED BY <1>6, <1>8, <2>1 DEF RequestOK, KindOK, ChatOK, ListOK, Exists, Users
<1>10. \A d \in ChatId : Exists(d)' <=> Exists(d)
  BY <1>2, <1>5 DEF Grown, Exists
<1> QED BY <1>2, <1>3, <1>5, <1>6, <1>7, <1>8, <1>9, <1>10

\* A step of a request keeps the types and its place, and disturbs no other one.
LEMMA RequestStep ==
    ASSUME ListInv, NEW r \in Request,
           \/ Receive(r) \/ CheckMe(r) \/ FindSingleChat(r) \/ CreateChat(r) \/ AddToLists(r)
           \/ FindPending(r) \/ SetStatus(r) \/ ReadMarks(r) \/ WriteMarks(r)
           \/ FindChatOfSender(r) \/ InsertMessage(r) \/ UpdateLast(r) \/ Fail(r)
    PROVE  TypeOK' /\ Grown /\ Others(r) /\ RequestOK(r)'
<1>1. CASE Receive(r) \/ CheckMe(r) \/ FindSingleChat(r) \/ FindPending(r)
  BY <1>1, ReceiveStep, ReadStep
<1>2. CASE CreateChat(r) \/ AddToLists(r) \/ SetStatus(r)
  BY <1>2, CreateStep, AddStep, StatusStep
<1>3. CASE ReadMarks(r) \/ WriteMarks(r)
  BY <1>3, ReadMarksStep, WriteMarksStep
<1>4. CASE FindChatOfSender(r) \/ InsertMessage(r) \/ UpdateLast(r)
  BY <1>4, FindChatStep, InsertStep, LastStep
<1>5. CASE Fail(r)
  <2>1. req' = End(r) /\ UNCHANGED <<documents, environment, unseen>> /\ TypeOK
    BY <1>5 DEF Fail, ListInv
  <2>2. /\ req' \in [Request -> {Idle, Ended} \cup Working] /\ req'[r].pc = "ended" /\ Others(r)
    BY <2>1, EndMoves
  <2> QED BY <2>1, <2>2, SameChats, EndedOK DEF TypeOK, documents, environment
<1> QED BY <1>1, <1>2, <1>3, <1>4, <1>5

\* A device connects, time passes, or nothing happens.
LEMMA WorldStep ==
    ASSUME ListInv, Connect \/ Tick \/ UNCHANGED vars
    PROVE  /\ TypeOK' /\ Grown /\ req' = req
           /\ UNCHANGED <<chats, messages, overlapped, unseen>> /\ (now' = now \/ now' = now + 1)
<1>1. /\ UNCHANGED <<chats, messages, chatIds, req, overlapped, unseen>>
      /\ now' = now \/ now' = now + 1
  BY DEF Connect, Tick, vars, documents, environment
<1>2. connections' \in [User -> SUBSET User]
  <2>1. CASE Connect
    <3>1. PICK u \in User \ Elite, v \in User :
              connections' = [connections EXCEPT ![u] = @ \cup {v}]
      BY <2>1 DEF Connect
    <3> QED BY <3>1 DEF ListInv, TypeOK
  <2>2. CASE Tick \/ UNCHANGED vars
    BY <2>2 DEF Tick, vars, environment, ListInv, TypeOK
  <2> QED BY <2>1, <2>2
<1>3. TypeOK'
  BY <1>1, <1>2 DEF ListInv, TypeOK
<1> QED BY <1>1, <1>3, SameChats

\* Every step keeps the lists of those who were answered.
LEMMA ListStep == ListInv /\ [Next]_vars => ListInv'
<1> SUFFICES ASSUME ListInv, [Next]_vars PROVE ListInv'
  OBVIOUS
<1>1. ASSUME NEW r \in Request, TypeOK', Grown, Others(r), RequestOK(r)' PROVE ListInv'
  <2>1. \A q \in Request : q # r => RequestOK(q)'
    BY <1>1, OthersKeep DEF ListInv, Others
  <2> QED BY <1>1, <2>1 DEF ListInv
<1>2. CASE Connect \/ Tick \/ UNCHANGED vars
  <2>1. \A q \in Request : RequestOK(q)'
    BY <1>2, WorldStep, OthersKeep DEF ListInv
  <2> QED BY <1>2, <2>1, WorldStep DEF ListInv
<1>3. CASE \E r \in Request :
             \/ Receive(r) \/ CheckMe(r) \/ FindSingleChat(r) \/ CreateChat(r) \/ AddToLists(r)
             \/ FindPending(r) \/ SetStatus(r) \/ ReadMarks(r) \/ WriteMarks(r)
             \/ FindChatOfSender(r) \/ InsertMessage(r) \/ UpdateLast(r) \/ Fail(r)
  BY <1>1, <1>3, RequestStep
<1> QED BY <1>2, <1>3 DEF Next

\* The first state has them.
LEMMA ListStart == Init => ListInv
<1> SUFFICES ASSUME Init PROVE ListInv
  OBVIOUS
<1>1. chats \in [ChatId -> Chat \cup {NoChat}] /\ chatIds \in [User -> SUBSET ChatId]
  <2>1. CASE /\ chats = [c \in ChatId |-> NoChat]
             /\ chatIds = [u \in User |-> {}]
    BY <2>1
  <2>2. CASE \E c \in ChatId, me \in User : \E other \in User \ {me} :
                /\ chats = [d \in ChatId |->
                               IF d = c THEN NewChat(me, other, "pending") ELSE NoChat]
                /\ chatIds = [u \in User |-> IF u = me THEN {c} ELSE {}]
    <3>1. PICK c \in ChatId, me \in User : \E other \in User \ {me} :
                /\ chats = [d \in ChatId |->
                               IF d = c THEN NewChat(me, other, "pending") ELSE NoChat]
                /\ chatIds = [u \in User |-> IF u = me THEN {c} ELSE {}]
      BY <2>2
    <3>2. PICK other \in User :
                chats = [d \in ChatId |->
                            IF d = c THEN NewChat(me, other, "pending") ELSE NoChat]
      BY <3>1
    <3>3. NewChat(me, other, "pending") \in Chat
      BY DEF NewChat, Chat, NoMarks, Never
    <3> QED BY <3>1, <3>2, <3>3
  <2> QED BY <2>1, <2>2 DEF Init
<1>2. TypeOK
  BY <1>1 DEF Init, TypeOK
<1>3. \A r \in Request : RequestOK(r)
  BY DEF Init, Idle, RequestOK, KindOK, ChatOK, ListOK, Labels
<1> QED BY <1>2, <1>3 DEF ListInv

\* So the invariant holds throughout.
LEMMA ListHolds == Spec => []ListInv
BY ListStart, ListStep, PTL DEF Spec

\* The documents and the requests keep their types, for any users and chats.
THEOREM TypeCorrect == Spec => []TypeOK
<1>1. ListInv => TypeOK
  BY DEF ListInv
<1> QED BY <1>1, ListHolds, PTL

\* Whoever was told that a chat was made, accepted or written to has it in the
\* lists of both users, for any number of requests at once and whatever
\* $addToSet failed before.
THEOREM Listed == Spec => []ListedOnceAnswered
<1>1. ListInv => ListedOnceAnswered
  BY DEF ListInv, RequestOK, ListOK, ListedOnceAnswered
<1> QED BY <1>1, ListHolds, PTL

-----------------------------------------------------------------------------
(* One request at a time: the chats of two users, and their status.        *)

Serial == \A r, q \in Active : r = q

\* What a request has read of the chats is still so when it writes, and an
\* answer that was a success is not taken back.
StatusOK(r) ==
    /\ req[r].pc = "createChat" => ChatsOf(req[r].user, req[r].other) = {}
    /\ req[r].pc = "setStatus" => chats[req[r].chat].requestStatus = "pending"
    /\ req[r].pc \in {"addToLists", "done"} /\ req[r].kind \in {"create", "accept"} =>
          chats[req[r].chat].requestStatus = "accepted"

OneChat == \A me, other \in User : \A c, d \in ChatsOf(me, other) : c = d

StatusInv == ~overlapped => Serial /\ OneChat /\ \A r \in Request : StatusOK(r)

\* A request that was at work goes on, or ends: no other one begins.
LEMMA StaysSerial ==
    ASSUME Serial, NEW r \in Active, Others(r) PROVE Serial'
<1>1. \A q \in Request : q # r => q \notin Active'
  BY DEF Serial, Others, Active
<1> QED BY <1>1 DEF Serial, Active

\* The first request to be received when none is at work is alone.
LEMMA FirstIsSerial ==
    ASSUME NEW r \in Request, Active = {}, Others(r) PROVE Serial'
<1>1. \A q \in Request : q # r => q \notin Active'
  BY DEF Others, Active
<1> QED BY <1>1 DEF Serial, Active

\* No chat is created.
SameSet == \A c \in ChatId : Exists(c)' => Exists(c)

\* Without a new document the chats of two users stay the same.
LEMMA SameChatsOf ==
    ASSUME Grown, SameSet, NEW me, NEW other
    PROVE  \A c \in ChatId : c \in ChatsOf(me, other)' <=> c \in ChatsOf(me, other)
BY DEF Grown, SameSet, ChatsOf

\* So do pairs with one chat at most.
LEMMA StaysOne == ASSUME Grown, SameSet, OneChat PROVE OneChat'
<1> SUFFICES ASSUME NEW me \in User, NEW other \in User,
                    NEW c \in ChatsOf(me, other)', NEW d \in ChatsOf(me, other)'
             PROVE  c = d
  BY DEF OneChat
<1>1. c \in ChatId /\ d \in ChatId
  BY DEF ChatsOf
<1>2. c \in ChatsOf(me, other) /\ d \in ChatsOf(me, other)
  BY <1>1, SameChatsOf
<1> QED BY <1>2 DEF OneChat

\* A chat that is accepted stays so.
StatusKept ==
    \A c \in ChatId : Exists(c) /\ chats[c].requestStatus = "accepted" =>
        chats'[c].requestStatus = "accepted"

\* Of a request that is not at work only the answer counts.
LEMMA AnswerStands ==
    ASSUME ListInv, StatusKept, NEW q \in Request, StatusOK(q), q \notin Active, req'[q] = req[q]
    PROVE  StatusOK(q)'
<1>1. req[q].pc \notin {"createChat", "setStatus", "addToLists"}
  BY DEF Active
<1>2. req[q].pc = "done" => req[q].chat \in ChatId /\ Exists(req[q].chat)
  BY DEF ListInv, RequestOK, ChatOK, Labels
<1> QED BY <1>1, <1>2 DEF StatusOK, StatusKept

\* A step of the one request at work.
LEMMA AloneStatus ==
    ASSUME ListInv, StatusInv, ~overlapped, overlapped' = overlapped,
           NEW r \in Active, Others(r), StatusKept, OneChat', StatusOK(r)'
    PROVE  StatusInv'
<1>1. Serial /\ \A q \in Request : q # r => q \notin Active /\ StatusOK(q)
  BY DEF StatusInv, Serial, Active
<1>2. \A q \in Request : q # r => StatusOK(q)'
  BY <1>1, AnswerStands DEF Others
<1>3. \A q \in Request : StatusOK(q)'
  BY <1>2 DEF Active
<1>4. Serial'
  BY <1>1, StaysSerial
<1> QED BY <1>3, <1>4 DEF StatusInv

\* A step that leaves the documents alone keeps their status.
LEMMA SameDocuments == ASSUME chats' = chats PROVE StatusKept /\ SameSet
BY DEF StatusKept, SameSet, Exists

\* A step that leaves the chats alone and goes on to a label where nothing is
\* relied upon.
LEMMA CalmStatus ==
    ASSUME ListInv, StatusInv, ~overlapped, overlapped' = overlapped, Grown, StatusKept, SameSet,
           NEW r \in Active, Others(r),
           req'[r].pc \notin {"createChat", "setStatus"},
           req'[r].pc \in {"addToLists", "done"} => req'[r].kind = "send"
    PROVE  StatusInv'
<1>1. StatusOK(r)'
  BY DEF StatusOK
<1>2. OneChat'
  BY StaysOne DEF StatusInv
<1> QED BY <1>1, <1>2, AloneStatus

\* No step of a request that is alone takes back what was accepted.
LEMMA StatusStepKeeps ==
    ASSUME ListInv, StatusInv, ~overlapped', NEW r \in Request,
           \/ CheckMe(r) \/ FindSingleChat(r) \/ CreateChat(r) \/ AddToLists(r)
           \/ FindPending(r) \/ SetStatus(r) \/ ReadMarks(r) \/ WriteMarks(r)
           \/ FindChatOfSender(r) \/ InsertMessage(r) \/ UpdateLast(r) \/ Fail(r)
    PROVE  StatusInv'
<1>1. /\ overlapped' = overlapped /\ TypeOK' /\ Grown /\ Others(r) /\ RequestOK(r)'
      /\ r \in Active /\ req[r].pc \in Labels
  <2>1. /\ overlapped' = overlapped /\ r \in Active
    BY DEF CheckMe, FindSingleChat, CreateChat, AddToLists, FindPending, SetStatus, ReadMarks,
           WriteMarks, FindChatOfSender, InsertMessage, UpdateLast, Fail, environment, Active
  <2> QED BY <2>1, RequestStep, AtLabel DEF ListInv
<1>2. ~overlapped /\ OneChat /\ StatusOK(r)
  BY <1>1 DEF StatusInv
<1>3. CASE req' = End(r) /\ UNCHANGED documents
  <2>1. req'[r].pc = "ended"
    BY <1>3, EndMoves DEF ListInv
  <2> QED BY <1>1, <1>2, <1>3, <2>1, SameDocuments, CalmStatus DEF documents
<1>4. CASE CheckMe(r) /\ req' = Goto(r, "findSingleChat")
  <2>1. req'[r].pc = "findSingleChat" /\ chats' = chats
    BY <1>1, <1>4, GotoMoves DEF CheckMe, ListInv, Labels, documents
  <2> QED BY <1>1, <1>2, <2>1, SameDocuments, CalmStatus
<1>5. CASE /\ FindSingleChat(r) /\ req' = Goto(r, "createChat")
           /\ ChatsOf(req[r].user, req[r].other) = {}
  <2>1. /\ req'[r].pc = "createChat" /\ chats' = chats
        /\ req'[r].user = req[r].user /\ req'[r].other = req[r].other
    BY <1>1, <1>5, GotoMoves DEF FindSingleChat, ListInv, Labels, documents
  <2>2. StatusOK(r)'
    BY <1>5, <2>1 DEF StatusOK, ChatsOf, Exists, Users
  <2> QED BY <1>1, <1>2, <2>1, <2>2, SameDocuments, StaysOne, AloneStatus
<1>6. CASE CreateChat(r)
  <2>1. PICK c \in ChatId :
            /\ ~Exists(c)
            /\ chats'[c] = NewChat(req[r].user, req[r].other, "accepted")
            /\ \A d \in ChatId : d # c => chats'[d] = chats[d]
            /\ req'[r].chat = c
    BY <1>6, CreateStep
  <2>2. req'[r].pc = "addToLists" /\ req[r].pc = "createChat"
    BY <1>6, CreateStep DEF CreateChat
  <2>3. Users(c)' = {req[r].user, req[r].other} /\ chats'[c].requestStatus = "accepted"
    BY <2>1 DEF Users, NewChat
  <2>4. StatusOK(r)'
    BY <2>1, <2>2, <2>3 DEF StatusOK
  <2>5. StatusKept
    BY <2>1 DEF StatusKept
  <2>6. ASSUME NEW me \in User, NEW other \in User, NEW d \in ChatsOf(me, other)'
        PROVE  IF d = c THEN {me, other} = {req[r].user, req[r].other}
                        ELSE d \in ChatsOf(me, other)
    <3>1. d \in ChatId /\ Exists(d)' /\ Users(d)' = {me, other}
      BY DEF ChatsOf
    <3>2. d # c => Exists(d) /\ Users(d) = {me, other}
      BY <2>1, <3>1 DEF Exists, Users
    <3> QED BY <2>3, <3>1, <3>2 DEF ChatsOf
  <2>7. ChatsOf(req[r].user, req[r].other) = {}
    BY <1>2, <2>2 DEF StatusOK
  <2>8. OneChat'
    <3> SUFFICES ASSUME NEW me \in User, NEW other \in User,
                        NEW d \in ChatsOf(me, other)', NEW e \in ChatsOf(me, other)'
                 PROVE  d = e
      BY DEF OneChat
    <3>1. \A g \in {d, e} : g = c \/ g \in ChatsOf(me, other)
      BY <2>6
    <3>2. d = c \/ e = c => ChatsOf(me, other) = {}
      BY <2>6, <2>7 DEF ChatsOf
    <3> QED BY <1>2, <3>1, <3>2 DEF OneChat
  <2> QED BY <1>1, <1>2, <2>4, <2>5, <2>8, AloneStatus
<1>7. CASE AddToLists(r)
  <2>1. /\ chats' = chats /\ req[r].pc = "addToLists"
        /\ req'[r].pc \in {"addToLists", "done"}
        /\ req'[r].kind = req[r].kind /\ req'[r].chat = req[r].chat
    BY <1>7, AddStep DEF AddToLists
  <2>2. StatusOK(r)'
    BY <1>2, <2>1 DEF StatusOK
  <2> QED BY <1>1, <1>2, <2>1, <2>2, SameDocuments, StaysOne, AloneStatus
<1>8. CASE /\ FindPending(r) /\ req' = Goto(r, "setStatus")
           /\ PendingFor(req[r].user, req[r].chat)
  <2>1. req'[r].pc = "setStatus" /\ chats' = chats /\ req'[r].chat = req[r].chat
    BY <1>1, <1>8, GotoMoves DEF FindPending, ListInv, Labels, documents
  <2>2. StatusOK(r)'
    BY <1>8, <2>1 DEF StatusOK, PendingFor
  <2> QED BY <1>1, <1>2, <2>1, <2>2, SameDocuments, StaysOne, AloneStatus
<1>9. CASE SetStatus(r)
  <2>1. /\ req[r].chat \in ChatId /\ Exists(req[r].chat) /\ req[r].pc = "setStatus"
        /\ \A d \in ChatId : d # req[r].chat => chats'[d] = chats[d]
        /\ req'[r].pc \in {"addToLists", "ended"}
        /\ req'[r].pc = "addToLists" => /\ chats'[req[r].chat].requestStatus = "accepted"
                                        /\ req'[r].chat = req[r].chat
    BY <1>9, StatusStep DEF SetStatus
  <2>2. chats[req[r].chat].requestStatus = "pending"
    BY <1>2, <2>1 DEF StatusOK
  <2>3. StatusKept
    BY <2>1, <2>2 DEF StatusKept
  <2>4. SameSet
    BY <2>1 DEF SameSet, Exists
  <2>5. StatusOK(r)'
    BY <2>1 DEF StatusOK
  <2> QED BY <1>1, <1>2, <2>3, <2>4, <2>5, StaysOne, AloneStatus
<1>10. CASE ReadMarks(r) \/ FindChatOfSender(r) \/ InsertMessage(r)
  <2>1. chats' = chats /\ req'[r].pc \in {"writeMarks", "insertMessage", "updateLast", "ended"}
    BY <1>10, ReadMarksStep, FindChatStep, InsertStep
       DEF ReadMarks, FindChatOfSender, InsertMessage, documents
  <2> QED BY <1>1, <1>2, <2>1, SameDocuments, CalmStatus
<1>11. CASE WriteMarks(r)
  <2>1. /\ req[r].chat \in ChatId /\ Exists(req[r].chat) /\ req'[r].pc = "ended"
        /\ \A d \in ChatId : d # req[r].chat => chats'[d] = chats[d]
        /\ chats'[req[r].chat].requestStatus = chats[req[r].chat].requestStatus
    BY <1>11, WriteMarksStep
  <2>2. StatusKept /\ SameSet
    BY <2>1 DEF StatusKept, SameSet, Exists
  <2> QED BY <1>1, <1>2, <2>1, <2>2, CalmStatus
<1>12. CASE UpdateLast(r)
  <2>1. /\ req'[r].pc = "addToLists" /\ req'[r].kind = "send"
        /\ \A d \in ChatId : Exists(d)' <=> Exists(d)
        /\ \A d \in ChatId : Exists(d) => chats'[d].requestStatus = chats[d].requestStatus
    BY <1>12, LastStep
  <2>2. StatusKept /\ SameSet
    BY <2>1 DEF StatusKept, SameSet
  <2> QED BY <1>1, <1>2, <2>1, <2>2, CalmStatus
<1>13. CASE CheckMe(r) \/ FindSingleChat(r) \/ FindPending(r)
  BY <1>3, <1>4, <1>5, <1>8, <1>13 DEF CheckMe, FindSingleChat, FindPending
<1>14. CASE Fail(r)
  BY <1>3, <1>14 DEF Fail
<1> QED BY <1>6, <1>7, <1>9, <1>10, <1>11, <1>12, <1>13, <1>14

\* Nor does the arrival of one.
LEMMA StatusReceive ==
    ASSUME ListInv, StatusInv, ~overlapped', NEW r \in Request, Receive(r) PROVE StatusInv'
<1>1. ~overlapped /\ Active = {} /\ chats' = chats
  BY DEF Receive, documents
<1>2. /\ Grown /\ Others(r)
      /\ req'[r].pc \in {"checkMe", "findPending", "readMarks", "findChatOfSender"}
  BY ReceiveStep
<1>3. OneChat /\ \A q \in Request : StatusOK(q)
  BY <1>1 DEF StatusInv
<1>4. StatusOK(r)'
  BY <1>2 DEF StatusOK
<1>5. \A q \in Request : q # r => StatusOK(q)'
  BY <1>1, <1>2, <1>3, SameDocuments, AnswerStands DEF Others
<1>6. OneChat'
  BY <1>1, <1>2, <1>3, SameDocuments, StaysOne
<1>7. Serial'
  BY <1>1, <1>2, FirstIsSerial
<1> QED BY <1>4, <1>5, <1>6, <1>7 DEF StatusInv

\* Nor does any other step.
LEMMA StatusKeeps == ListInv /\ StatusInv /\ [Next]_vars => StatusInv'
<1> SUFFICES ASSUME ListInv, StatusInv, [Next]_vars, ~overlapped' PROVE StatusInv'
  BY DEF StatusInv
<1>1. CASE Connect \/ Tick \/ UNCHANGED vars
  <2>1. UNCHANGED <<chats, req, overlapped>>
    BY <1>1, WorldStep
  <2>2. Serial' = Serial
    BY <2>1 DEF Serial, Active
  <2>3. ASSUME NEW me, NEW other PROVE ChatsOf(me, other)' = ChatsOf(me, other)
    BY <2>1 DEF ChatsOf, Exists, Users
  <2>4. OneChat' <=> OneChat
    BY <2>3 DEF OneChat
  <2>5. \A r \in Request : StatusOK(r) => StatusOK(r)'
    BY <2>1, <2>3 DEF StatusOK
  <2> QED BY <2>1, <2>2, <2>4, <2>5 DEF StatusInv
<1>2. CASE \E r \in Request : Receive(r)
  BY <1>2, StatusReceive
<1>3. CASE \E r \in Request :
             \/ CheckMe(r) \/ FindSingleChat(r) \/ CreateChat(r) \/ AddToLists(r)
             \/ FindPending(r) \/ SetStatus(r) \/ ReadMarks(r) \/ WriteMarks(r)
             \/ FindChatOfSender(r) \/ InsertMessage(r) \/ UpdateLast(r) \/ Fail(r)
  BY <1>3, StatusStepKeeps
<1> QED BY <1>1, <1>2, <1>3 DEF Next

\* The first state has accepted nothing.
LEMMA StatusStart == Init => StatusInv
<1> SUFFICES ASSUME Init PROVE StatusInv
  OBVIOUS
<1>1. Serial /\ \A r \in Request : StatusOK(r)
  BY DEF Init, Serial, Active, StatusOK, Idle
<1>2. ASSUME NEW c \in ChatId, NEW d \in ChatId, Exists(c), Exists(d) PROVE c = d
  BY <1>2 DEF Init, Exists
<1>3. OneChat
  BY <1>2 DEF OneChat, ChatsOf
<1> QED BY <1>1, <1>3 DEF StatusInv

\* So one request at a time this always holds.
LEMMA StatusHolds == Spec => []StatusInv
BY ListHolds, StatusStart, StatusKeeps, PTL DEF Spec

\* While requests come one at a time, two users have one chat, for any users and
\* chats and whatever call of an earlier request failed.
THEOREM OneChatOnly == Spec => []OneChatOneAtATime
<1>1. StatusInv => OneChatOneAtATime
  BY DEF StatusInv, OneChat, OneChatOneAtATime
<1> QED BY <1>1, StatusHolds, PTL

\* While requests come one at a time, a chat that was created or accepted with
\* success stays in what getAllChatsByUserId returns to both users.
THEOREM StaysShown == Spec => []AcceptedStaysShown
<1>1. ListInv /\ StatusInv => AcceptedStaysShown
  <2> SUFFICES ASSUME ListInv, StatusInv, ~overlapped, NEW r \in Request, req[r].pc = "done",
                      req[r].kind \in {"create", "accept"}, NEW u \in Users(req[r].chat)
               PROVE  req[r].chat \in Shown(u)
    BY DEF AcceptedStaysShown
  <2>1. req[r].chat \in chatIds[u]
    BY DEF ListInv, RequestOK, ListOK
  <2>2. chats[req[r].chat].requestStatus = "accepted"
    BY DEF StatusInv, StatusOK
  <2> QED BY <2>1, <2>2 DEF Shown
<1> QED BY <1>1, ListHolds, StatusHolds, PTL

-----------------------------------------------------------------------------
(* One request at a time: the marks and the unread messages.               *)

Inserted(m) == messages[m] # NoMessage
Mark(c, u) == chats[c].lastReadAt[u]

\* No stamp is from the future; an unseen message was sent, by somebody else.
DatesOK ==
    /\ \A m \in Request : Inserted(m) => Exists(messages[m].chat) /\ messages[m].createdAt <= now
    /\ \A u \in User : \A m \in unseen[u] : Inserted(m) /\ messages[m].sender # u
    /\ \A c \in ChatId : Exists(c) => \A u \in User : Mark(c, u) <= now

\* What is unseen is not from before the mark, what was seen is not from after it.
MarksOK ==
    \A c \in ChatId : Exists(c) => \A u \in Users(c) : \A m \in Request :
        Inserted(m) /\ messages[m].chat = c =>
            /\ m \in unseen[u] => Mark(c, u) <= messages[m].createdAt
            /\ m \notin unseen[u] /\ messages[m].sender # u =>
                  messages[m].createdAt <= Mark(c, u)

\* What a request read of the clock and of the marks is still so when it writes.
StampOK(r) ==
    /\ req[r].pc \in {"idle", "findChatOfSender", "insertMessage"} => ~Inserted(r)
    /\ req[r].pc = "insertMessage" =>
          /\ req[r].at <= now
          /\ \A u \in User : Mark(req[r].chat, u) <= req[r].at
    /\ req[r].pc = "writeMarks" =>
          /\ req[r].marks[req[r].user] <= now
          /\ \A u \in User \ {req[r].user} : req[r].marks[u] = Mark(req[r].chat, u)
          /\ \A m \in Request : Inserted(m) /\ messages[m].chat = req[r].chat =>
                messages[m].createdAt <= req[r].marks[req[r].user]

UnreadInv == ~overlapped => DatesOK /\ MarksOK /\ \A r \in Request : StampOK(r)

\* The messages that were inserted are the documents.
LEMMA InsertedTyped ==
    ASSUME TypeOK, NEW m \in Request
    PROVE  Inserted(m) <=> messages[m] \in Message
BY DEF TypeOK, Inserted, Message, NoMessage

\* The marks of a chat are those of users.
LEMMA MarkTyped ==
    ASSUME TypeOK, NEW c \in ChatId, Exists(c)
    PROVE  Users(c) \subseteq User /\ \A u \in User : Mark(c, u) \in Nat
BY Existing DEF Users, Mark, Chat

\* A step that writes neither a message nor a mark, the clock apart.
MarksKept == \A c \in ChatId : Exists(c) => chats'[c].lastReadAt = chats[c].lastReadAt

\* Without new messages and marks, dates and marks stay in order.
LEMMA QuietMarks ==
    ASSUME ListInv, DatesOK, MarksOK, UNCHANGED <<messages, unseen>>,
           now' = now \/ now' = now + 1, Grown, SameSet, MarksKept
    PROVE  DatesOK' /\ MarksOK'
<1>0. TypeOK /\ now \in Nat /\ now <= now'
  BY DEF ListInv, TypeOK
<1>1. ASSUME NEW c \in ChatId, Exists(c)'
      PROVE  /\ Exists(c) /\ Users(c)' = Users(c)
             /\ \A u \in User : Mark(c, u)' = Mark(c, u) /\ Mark(c, u) \in Nat
  <2>1. Exists(c) /\ Users(c)' = Users(c)
    BY <1>1 DEF SameSet, Grown
  <2>2. \A u \in User : Mark(c, u)' = Mark(c, u)
    BY <2>1 DEF MarksKept, Mark
  <2> QED BY <1>0, <2>1, <2>2, MarkTyped
<1>2. \A m \in Request : Inserted(m)' <=> Inserted(m)
  BY DEF Inserted
<1>3. ASSUME NEW m \in Request, Inserted(m)'
      PROVE  Exists(messages[m].chat)' /\ messages'[m].createdAt <= now'
  <2>1. messages[m] \in Message /\ Exists(messages[m].chat) /\ messages[m].createdAt <= now
    BY <1>0, <1>2, <1>3, InsertedTyped DEF DatesOK
  <2>2. messages[m].chat \in ChatId /\ messages[m].createdAt \in Nat /\ messages'[m] = messages[m]
    BY <2>1 DEF Message
  <2>3. \A c \in ChatId : Exists(c) => chats'[c] # NoChat
    BY DEF Grown, Exists
  <2> QED BY <1>0, <2>1, <2>2, <2>3 DEF Exists
<1>4. \A u \in User : \A m \in unseen'[u] : Inserted(m)' /\ messages'[m].sender # u
  BY DEF DatesOK, Inserted
<1>5. ASSUME NEW c \in ChatId, Exists(c)', NEW u \in User PROVE Mark(c, u)' <= now'
  <2>1. Exists(c) /\ Mark(c, u)' = Mark(c, u) /\ Mark(c, u) \in Nat
    BY <1>1, <1>5
  <2>2. Mark(c, u) <= now
    BY <2>1 DEF DatesOK
  <2> QED BY <1>0, <2>1, <2>2
<1>6. DatesOK'
  BY <1>3, <1>4, <1>5 DEF DatesOK
<1>7. MarksOK'
  <2> SUFFICES ASSUME NEW c \in ChatId, Exists(c)', NEW u \in Users(c)', NEW m \in Request,
                      Inserted(m)', messages'[m].chat = c
               PROVE  /\ m \in unseen'[u] => Mark(c, u)' <= messages'[m].createdAt
                      /\ m \notin unseen'[u] /\ messages'[m].sender # u =>
                            messages'[m].createdAt <= Mark(c, u)'
    BY DEF MarksOK
  <2>1. Exists(c) /\ u \in Users(c) /\ u \in User
    BY <1>0, <1>1, MarkTyped
  <2>2. Mark(c, u)' = Mark(c, u) /\ Inserted(m) /\ messages[m].chat = c
    BY <1>1, <1>2, <2>1
  <2> QED BY <2>1, <2>2 DEF MarksOK
<1> QED BY <1>6, <1>7

\* What a request that takes no step relies on, when no message is stored.
LEMMA QuietStamp ==
    ASSUME ListInv, NEW q \in Request, StampOK(q), req'[q] = req[q], UNCHANGED messages,
           now' = now \/ now' = now + 1, MarksKept
    PROVE  StampOK(q)'
<1>0. TypeOK /\ now \in Nat
  BY DEF ListInv, TypeOK
<1>1. req[q].pc \in {"insertMessage", "writeMarks"} =>
         /\ req[q] \in Working /\ req[q].chat \in ChatId /\ Exists(req[q].chat)
         /\ \A u \in User : chats'[req[q].chat].lastReadAt[u] = chats[req[q].chat].lastReadAt[u]
  BY <1>0, AtLabel DEF ListInv, RequestOK, ChatOK, MarksKept, Labels
<1>2. req[q].pc \in {"insertMessage", "writeMarks"} =>
         req[q].at \in Nat /\ req[q].marks[req[q].user] \in Nat
  BY <1>1 DEF Working
<1>3. req[q].pc \in {"idle", "findChatOfSender", "insertMessage"} => ~Inserted(q)'
  BY DEF StampOK, Inserted
<1>4. req[q].pc = "insertMessage" =>
         /\ req[q].at <= now'
         /\ \A u \in User : chats'[req[q].chat].lastReadAt[u] <= req[q].at
  BY <1>0, <1>1, <1>2 DEF StampOK, Mark
<1>5. req[q].pc = "writeMarks" =>
         /\ req[q].marks[req[q].user] <= now'
         /\ \A u \in User \ {req[q].user} : req[q].marks[u] = chats'[req[q].chat].lastReadAt[u]
         /\ \A m \in Request : Inserted(m)' /\ messages'[m].chat = req[q].chat =>
                messages'[m].createdAt <= req[q].marks[req[q].user]
  BY <1>0, <1>1, <1>2 DEF StampOK, Mark, Inserted
<1> QED BY <1>3, <1>4, <1>5 DEF StampOK, Mark

\* A request that is not at work relies on its message alone.
LEMMA RestStamp ==
    ASSUME NEW q \in Request, StampOK(q), q \notin Active, req'[q] = req[q],
           messages'[q] = messages[q]
    PROVE  StampOK(q)'
BY DEF StampOK, Active, Inserted

\* A step of the one request at work that leaves the messages and marks alone.
LEMMA QuietUnread ==
    ASSUME ListInv, UnreadInv, ~overlapped, UNCHANGED <<messages, unseen, now>>,
           Grown, SameSet, MarksKept, NEW r \in Request, Others(r), StampOK(r)'
    PROVE  UnreadInv'
<1>1. DatesOK /\ MarksOK /\ \A q \in Request : StampOK(q)
  BY DEF UnreadInv
<1>2. DatesOK' /\ MarksOK'
  BY <1>1, QuietMarks
<1>3. \A q \in Request : q # r => StampOK(q)'
  BY <1>1, QuietStamp DEF Others
<1>4. \A q \in Request : StampOK(q)'
  BY <1>3
<1> QED BY <1>2, <1>4 DEF UnreadInv

\* One that goes on to a label where it relies on no stamp.
LEMMA CalmUnread ==
    ASSUME ListInv, UnreadInv, ~overlapped, UNCHANGED <<messages, unseen, now>>,
           Grown, SameSet, MarksKept, NEW r \in Request, Others(r),
           req'[r].pc \notin {"idle", "findChatOfSender", "insertMessage", "writeMarks"}
    PROVE  UnreadInv'
<1>1. StampOK(r)'
  BY DEF StampOK
<1> QED BY <1>1, QuietUnread

\* A step that leaves the documents alone keeps the marks.
LEMMA SameMarks == ASSUME chats' = chats PROVE MarksKept /\ SameSet
BY DEF MarksKept, SameSet, Exists

\* A chat that is new has no messages yet, and no marks.
LEMMA CreateUnread ==
    ASSUME ListInv, UnreadInv, ~overlapped, NEW r \in Request, CreateChat(r) PROVE UnreadInv'
<1>1. DatesOK /\ MarksOK /\ TypeOK /\ TypeOK' /\ \A q \in Request : StampOK(q)
  BY CreateStep DEF UnreadInv, ListInv
<1>2. UNCHANGED <<messages, unseen, now>> /\ Grown /\ Others(r)
  BY CreateStep DEF CreateChat, environment
<1>3. PICK c \in ChatId :
          /\ ~Exists(c)
          /\ chats'[c] = NewChat(req[r].user, req[r].other, "accepted")
          /\ \A d \in ChatId : d # c => chats'[d] = chats[d]
  BY CreateStep
<1>4. req'[r].pc = "addToLists" /\ now \in Nat
  BY <1>1, CreateStep DEF TypeOK
<1>5. MarksKept
  BY <1>3 DEF MarksKept
<1>6. StampOK(r)'
  BY <1>4 DEF StampOK
<1>7. \A q \in Request : q # r => StampOK(q)'
  BY <1>1, <1>2, <1>5, QuietStamp DEF Others
<1>8. ASSUME NEW m \in Request, Inserted(m)'
      PROVE  /\ Inserted(m) /\ messages[m].chat \in ChatId /\ messages[m].chat # c
             /\ Exists(messages[m].chat)' /\ messages[m].createdAt <= now
  <2>1. messages[m] \in Message /\ Exists(messages[m].chat) /\ messages[m].createdAt <= now
    BY <1>1, <1>2, <1>8, InsertedTyped DEF DatesOK, Inserted
  <2>2. messages[m].chat \in ChatId /\ messages[m].chat # c
    BY <1>3, <2>1 DEF Message
  <2>3. chats'[messages[m].chat] # NoChat
    BY <1>3, <2>1, <2>2 DEF Exists
  <2> QED BY <1>2, <2>1, <2>2, <2>3 DEF Inserted, Exists, Message, NoMessage
<1>9. \A d \in ChatId : d # c => /\ Exists(d)' = Exists(d) /\ Users(d)' = Users(d)
                                 /\ \A u \in User : Mark(d, u)' = Mark(d, u)
  BY <1>3 DEF Exists, Users, Mark
<1>10. \A u \in User : Mark(c, u)' <= now
  BY <1>3, <1>4 DEF Mark, NewChat, NoMarks, Never
<1>11. DatesOK'
  <2>1. \A d \in ChatId : Exists(d)' => \A u \in User : Mark(d, u)' <= now'
    <3> SUFFICES ASSUME NEW d \in ChatId, Exists(d)', NEW u \in User PROVE Mark(d, u)' <= now'
      OBVIOUS
    <3>1. CASE d = c
      BY <1>2, <1>10, <3>1
    <3>2. CASE d # c
      BY <1>1, <1>2, <1>9, <3>2 DEF DatesOK
    <3> QED BY <3>1, <3>2
  <2>2. \A u \in User : \A m \in unseen'[u] : Inserted(m)' /\ messages'[m].sender # u
    BY <1>1, <1>2 DEF DatesOK, Inserted
  <2>3. \A m \in Request :
           Inserted(m)' => Exists(messages[m].chat)' /\ messages'[m].createdAt <= now'
    BY <1>2, <1>8
  <2> QED BY <2>1, <2>2, <2>3 DEF DatesOK
<1>12. MarksOK'
  <2> SUFFICES ASSUME NEW d \in ChatId, Exists(d)', NEW u \in Users(d)', NEW m \in Request,
                      Inserted(m)', messages'[m].chat = d
               PROVE  /\ m \in unseen'[u] => Mark(d, u)' <= messages'[m].createdAt
                      /\ m \notin unseen'[u] /\ messages'[m].sender # u =>
                            messages'[m].createdAt <= Mark(d, u)'
    BY DEF MarksOK
  <2>1. d # c /\ Inserted(m) /\ messages[m].chat = d
    BY <1>2, <1>8
  <2>2. Exists(d) /\ u \in Users(d) /\ u \in User /\ Mark(d, u)' = Mark(d, u)
    BY <1>1, <1>9, <2>1, MarkTyped
  <2> QED BY <1>1, <1>2, <2>1, <2>2 DEF MarksOK
<1>13. \A q \in Request : StampOK(q)'
  BY <1>6, <1>7
<1> QED BY <1>11, <1>12, <1>13 DEF UnreadInv

\* Nothing was stored since the marks were read, so that the object that is
\* written back changes the own mark only; what it covers is seen.
LEMMA WriteUnread ==
    ASSUME ListInv, UnreadInv, StatusInv, ~overlapped, NEW r \in Request, WriteMarks(r)
    PROVE  UnreadInv'
<1>1. DatesOK /\ MarksOK /\ TypeOK /\ TypeOK' /\ \A q \in Request : StampOK(q)
  BY WriteMarksStep DEF UnreadInv, ListInv
<1>2. /\ UNCHANGED <<messages, now>> /\ Grown /\ Others(r) /\ req'[r].pc = "ended"
      /\ req[r].pc = "writeMarks" /\ r \in Active
  BY WriteMarksStep DEF WriteMarks, environment, Active
<1>3. PICK c \in ChatId, me \in User :
          /\ c = req[r].chat /\ me = req[r].user /\ Exists(c)
          /\ \A d \in ChatId : d # c => chats'[d] = chats[d]
          /\ chats'[c].lastReadAt = req[r].marks
          /\ unseen'[me] = {m \in unseen[me] : messages[m].chat # c}
          /\ \A u \in User : u # me => unseen'[u] = unseen[u]
  BY WriteMarksStep
<1>4. /\ Mark(c, me)' <= now
      /\ \A u \in User : u # me => Mark(c, u)' = Mark(c, u)
      /\ \A m \in Request : Inserted(m) /\ messages[m].chat = c =>
            messages[m].createdAt <= Mark(c, me)'
  BY <1>1, <1>2, <1>3 DEF StampOK, Mark
<1>5. \A d \in ChatId : Exists(d)' <=> Exists(d)
  BY <1>2, <1>3 DEF Exists, Grown
<1>6. \A d \in ChatId : Exists(d) => Users(d)' = Users(d)
  BY <1>2 DEF Grown
<1>7. \A d \in ChatId : d # c => \A u \in User : Mark(d, u)' = Mark(d, u)
  BY <1>3 DEF Mark
<1>8. \A m \in Request : Inserted(m)' <=> Inserted(m)
  BY <1>2 DEF Inserted
<1>9. DatesOK'
  <2>1. ASSUME NEW m \in Request, Inserted(m)'
        PROVE  Exists(messages[m].chat)' /\ messages'[m].createdAt <= now'
    <3>1. messages[m] \in Message /\ Exists(messages[m].chat) /\ messages[m].createdAt <= now
      BY <1>1, <1>8, <2>1, InsertedTyped DEF DatesOK
    <3>2. messages[m].chat \in ChatId
      BY <3>1 DEF Message
    <3>3. \A d \in ChatId : Exists(d) => chats'[d] # NoChat
      BY <1>2 DEF Grown, Exists
    <3> QED BY <1>2, <3>1, <3>2, <3>3 DEF Exists
  <2>2. \A u \in User : \A m \in unseen'[u] : Inserted(m)' /\ messages'[m].sender # u
    BY <1>1, <1>2, <1>3 DEF DatesOK, Inserted
  <2>3. \A d \in ChatId : Exists(d)' => \A u \in User : Mark(d, u)' <= now'
    BY <1>1, <1>2, <1>4, <1>5, <1>7 DEF DatesOK
  <2> QED BY <2>1, <2>2, <2>3 DEF DatesOK
<1>10. MarksOK'
  <2> SUFFICES ASSUME NEW d \in ChatId, Exists(d)', NEW u \in Users(d)', NEW m \in Request,
                      Inserted(m)', messages'[m].chat = d
               PROVE  /\ m \in unseen'[u] => Mark(d, u)' <= messages'[m].createdAt
                      /\ m \notin unseen'[u] /\ messages'[m].sender # u =>
                            messages'[m].createdAt <= Mark(d, u)'
    BY DEF MarksOK
  <2>1. Exists(d) /\ u \in Users(d) /\ u \in User /\ Inserted(m) /\ messages[m].chat = d
    BY <1>1, <1>2, <1>5, <1>6, <1>8, MarkTyped
  <2>2. /\ m \in unseen[u] => Mark(d, u) <= messages[m].createdAt
        /\ m \notin unseen[u] /\ messages[m].sender # u => messages[m].createdAt <= Mark(d, u)
    BY <1>1, <2>1 DEF MarksOK
  <2>3. CASE d = c /\ u = me
    BY <1>2, <1>3, <1>4, <2>1, <2>3
  <2>4. CASE d # c /\ u = me
    BY <1>2, <1>3, <1>7, <2>1, <2>2, <2>4
  <2>5. CASE u # me
    <3>1. Mark(d, u)' = Mark(d, u) /\ unseen'[u] = unseen[u]
      BY <1>3, <1>4, <1>7, <2>1, <2>5
    <3> QED BY <1>2, <2>2, <3>1
  <2> QED BY <2>3, <2>4, <2>5
<1>11. StampOK(r)'
  BY <1>2 DEF StampOK
<1>12. \A q \in Request : q # r => q \notin Active
  BY <1>2 DEF StatusInv, Serial
<1>13. \A q \in Request : q # r => StampOK(q)'
  BY <1>1, <1>2, <1>12, RestStamp DEF Others
<1>14. \A q \in Request : StampOK(q)'
  BY <1>11, <1>13
<1> QED BY <1>9, <1>10, <1>14 DEF UnreadInv

\* No mark was stamped since the message got its time, so that it is unread.
LEMMA InsertUnread ==
    ASSUME ListInv, UnreadInv, StatusInv, ~overlapped, NEW r \in Request, InsertMessage(r)
    PROVE  UnreadInv'
<1>1. DatesOK /\ MarksOK /\ TypeOK /\ TypeOK' /\ \A q \in Request : StampOK(q)
  BY InsertStep DEF UnreadInv, ListInv
<1>2. /\ UNCHANGED <<chats, now>> /\ Grown /\ Others(r) /\ req'[r].pc = "updateLast"
      /\ req[r].pc = "insertMessage" /\ r \in Active
  BY InsertStep DEF InsertMessage, environment, Active
<1> DEFINE new == [chat |-> req[r].chat, sender |-> req[r].user, createdAt |-> req[r].at]
<1> HIDE DEF new
<1>3. PICK c \in ChatId : c = req[r].chat /\ Exists(c)
  BY InsertStep
<1>4. PICK me \in User : me = req[r].user
  BY InsertStep
<1>5. /\ c = req[r].chat /\ me = req[r].user /\ Exists(c)
      /\ messages'[r] = new
      /\ \A m \in Request : m # r => messages'[m] = messages[m]
      /\ \A u \in User : unseen'[u] = IF u \in Users(c) \ {me}
                                      THEN unseen[u] \cup {r} ELSE unseen[u]
  BY <1>3, <1>4, InsertStep DEF new
<1>6. /\ req[r].at <= now /\ ~Inserted(r)
      /\ \A u \in User : Mark(c, u) <= req[r].at
  BY <1>1, <1>2, <1>5 DEF StampOK
<1>7. /\ messages'[r].chat = c /\ messages'[r].sender = me
      /\ messages'[r].createdAt = req[r].at
  BY <1>5 DEF new
<1>8. \A d \in ChatId : /\ Exists(d)' <=> Exists(d) 
                        /\ Users(d)' = Users(d) /\ \A u \in User : Mark(d, u)' = Mark(d, u)
  BY <1>2 DEF Exists, Users, Mark
<1>9. \A m \in Request : m # r => (Inserted(m)' <=> Inserted(m))
  BY <1>5 DEF Inserted
<1>10. \A u \in User : r \notin unseen[u]
  BY <1>1, <1>6 DEF DatesOK
<1>11. Inserted(r)'
  <2>1. messages'[r] # NoMessage
    BY <1>1, <1>7, <1>5, <1>2 DEF ListInv, RequestOK, KindOK, NoMessage, Never
  <2> QED BY <2>1 DEF Inserted
<1>12. DatesOK'
  <2>1. ASSUME NEW m \in Request, Inserted(m)'
        PROVE  Exists(messages[m].chat)' /\ messages'[m].createdAt <= now'
    <3>1. CASE m = r
      BY <1>2, <1>5, <1>6, <1>7, <3>1 DEF Exists
    <3>2. CASE m # r
      BY <1>1, <1>2, <1>5, <1>9, <2>1, <3>2 DEF DatesOK, Exists
    <3> QED BY <3>1, <3>2
  <2>2. ASSUME NEW u \in User, NEW m \in unseen'[u] PROVE Inserted(m)' /\ messages'[m].sender # u
    <3>1. CASE m = r
      BY <1>5, <1>7, <1>10, <1>11, <2>2, <3>1
    <3>2. CASE m # r
      <4>1. m \in unseen[u] /\ m \in Request
        BY <1>1, <1>5, <2>2, <3>2 DEF TypeOK
      <4> QED BY <1>1, <1>5, <1>9, <3>2, <4>1 DEF DatesOK
    <3> QED BY <3>1, <3>2
  <2>3. \A d \in ChatId : Exists(d)' => \A u \in User : Mark(d, u)' <= now'
    BY <1>1, <1>2, <1>8 DEF DatesOK
  <2> QED BY <2>1, <2>2, <2>3 DEF DatesOK
<1>13. MarksOK'
  <2> SUFFICES ASSUME NEW d \in ChatId, Exists(d)', NEW u \in Users(d)', NEW m \in Request,
                      Inserted(m)', messages'[m].chat = d
               PROVE  /\ m \in unseen'[u] => Mark(d, u)' <= messages'[m].createdAt
                      /\ m \notin unseen'[u] /\ messages'[m].sender # u =>
                            messages'[m].createdAt <= Mark(d, u)'
    BY DEF MarksOK
  <2>1. Exists(d) /\ u \in Users(d) /\ u \in User /\ Mark(d, u)' = Mark(d, u)
    BY <1>1, <1>8, MarkTyped
  <2>2. CASE m = r
    <3>1. d = c /\ Mark(c, u) <= messages'[r].createdAt
      BY <1>6, <1>7, <2>1, <2>2
    <3>2. u # me => r \in unseen'[u]
      BY <1>5, <2>1, <3>1
    <3> QED BY <1>7, <2>1, <2>2, <3>1, <3>2
  <2>3. CASE m # r
    <3>1. Inserted(m) /\ messages'[m] = messages[m] /\ (m \in unseen'[u] <=> m \in unseen[u])
      BY <1>5, <1>9, <2>1, <2>3
    <3> QED BY <1>1, <2>1, <3>1 DEF MarksOK
  <2> QED BY <2>2, <2>3
<1>14. StampOK(r)'
  BY <1>2 DEF StampOK
<1>15. \A q \in Request : q # r => q \notin Active
  BY <1>2 DEF StatusInv, Serial
<1>16. \A q \in Request : q # r => StampOK(q)'
  BY <1>1, <1>2, <1>5, <1>15, RestStamp DEF Others
<1>17. \A q \in Request : StampOK(q)'
  BY <1>14, <1>16
<1> QED BY <1>12, <1>13, <1>17 DEF UnreadInv

\* Every step of a request that is alone keeps the counts.
LEMMA UnreadStep ==
    ASSUME ListInv, UnreadInv, StatusInv, ~overlapped', NEW r \in Request,
           \/ CheckMe(r) \/ FindSingleChat(r) \/ CreateChat(r) \/ AddToLists(r)
           \/ FindPending(r) \/ SetStatus(r) \/ ReadMarks(r) \/ WriteMarks(r)
           \/ FindChatOfSender(r) \/ InsertMessage(r) \/ UpdateLast(r) \/ Fail(r)
    PROVE  UnreadInv'
<1>1. /\ overlapped' = overlapped /\ TypeOK /\ TypeOK' /\ Grown /\ Others(r)
      /\ r \in Active /\ req[r].pc \in Labels
  <2>1. overlapped' = overlapped /\ r \in Active
    BY DEF CheckMe, FindSingleChat, CreateChat, AddToLists, FindPending, SetStatus, ReadMarks,
           WriteMarks, FindChatOfSender, InsertMessage, UpdateLast, Fail, environment, Active
  <2> QED BY <2>1, RequestStep, AtLabel DEF ListInv
<1>2. ~overlapped /\ DatesOK /\ StampOK(r)
  BY <1>1 DEF UnreadInv
<1>3. CASE CheckMe(r) \/ FindSingleChat(r) \/ FindPending(r) \/ Fail(r)
  <2>1. UNCHANGED <<chats, messages, unseen, now>>
    BY <1>3 DEF CheckMe, FindSingleChat, FindPending, Fail, documents, environment
  <2>2. PICK l \in {"findSingleChat", "createChat", "setStatus"} : req' = Goto(r, l) \/ req' = End(r)
    BY <1>3 DEF CheckMe, FindSingleChat, FindPending, Fail
  <2>3. req'[r].pc \notin {"idle", "findChatOfSender", "insertMessage", "writeMarks"}
    <3>1. CASE req' = End(r)
      BY <1>1, <3>1, EndMoves
    <3>2. CASE req' = Goto(r, l)
      BY <1>1, <2>2, <3>2, GotoMoves DEF Labels
    <3> QED BY <2>2, <3>1, <3>2
  <2> QED BY <1>1, <1>2, <2>1, <2>3, SameMarks, CalmUnread
<1>4. CASE CreateChat(r) \/ WriteMarks(r) \/ InsertMessage(r)
  BY <1>2, <1>4, CreateUnread, WriteUnread, InsertUnread
<1>5. CASE AddToLists(r)
  <2>1. UNCHANGED <<chats, messages, unseen, now>> /\ req'[r].pc \in {"addToLists", "done"}
    BY <1>5, AddStep DEF AddToLists, environment
  <2> QED BY <1>1, <1>2, <2>1, SameMarks, CalmUnread
<1>6. CASE SetStatus(r)
  <2>1. /\ req[r].chat \in ChatId /\ Exists(req[r].chat)
        /\ \A d \in ChatId : d # req[r].chat => chats'[d] = chats[d]
        /\ chats'[req[r].chat].lastReadAt = chats[req[r].chat].lastReadAt
        /\ req'[r].pc \in {"addToLists", "ended"}
    BY <1>6, StatusStep
  <2>2. MarksKept /\ SameSet
    BY <2>1 DEF MarksKept, SameSet, Exists
  <2>3. UNCHANGED <<messages, unseen, now>>
    BY <1>6 DEF SetStatus, environment
  <2> QED BY <1>1, <1>2, <2>1, <2>2, <2>3, CalmUnread
<1>7. CASE UpdateLast(r)
  <2>1. /\ \A d \in ChatId : Exists(d) => chats'[d].lastReadAt = chats[d].lastReadAt
        /\ \A d \in ChatId : Exists(d)' <=> Exists(d)
        /\ req'[r].pc = "addToLists"
    BY <1>7, LastStep
  <2>2. MarksKept /\ SameSet
    BY <2>1 DEF MarksKept, SameSet
  <2>3. UNCHANGED <<messages, unseen, now>>
    BY <1>7 DEF UpdateLast, environment
  <2> QED BY <1>1, <1>2, <2>1, <2>2, <2>3, CalmUnread
<1>8. CASE FindChatOfSender(r)
  <2>1. UNCHANGED <<chats, messages, unseen, now>> /\ req[r].pc = "findChatOfSender"
    BY <1>8 DEF FindChatOfSender, documents, environment
  <2>2. /\ req'[r].pc \in {"insertMessage", "ended"}
        /\ req'[r].pc = "insertMessage" =>
              /\ req'[r].chat = req[r].chat /\ req[r].chat \in ChatId /\ Exists(req[r].chat)
              /\ req'[r].at = now
    BY <1>8, FindChatStep
  <2>3. CASE req'[r].pc = "ended"
    BY <1>1, <1>2, <2>1, <2>3, SameMarks, CalmUnread
  <2>4. CASE req'[r].pc = "insertMessage"
    <3>1. ~Inserted(r)'
      BY <1>2, <2>1 DEF StampOK, Inserted
    <3>2. \A u \in User : chats'[req'[r].chat].lastReadAt[u] <= req'[r].at
      BY <1>2, <2>1, <2>2, <2>4 DEF DatesOK, Mark
    <3>3. req'[r].at <= now'
      BY <1>1, <2>1, <2>2, <2>4 DEF TypeOK
    <3>4. StampOK(r)'
      BY <2>4, <3>1, <3>2, <3>3 DEF StampOK, Mark
    <3> QED BY <1>1, <1>2, <2>1, <3>4, SameMarks, QuietUnread
  <2> QED BY <2>2, <2>3, <2>4
<1>9. CASE ReadMarks(r)
  <2>1. UNCHANGED <<chats, messages, unseen, now>>
    BY <1>9 DEF ReadMarks, documents, environment
  <2>2. /\ req'[r].pc \in {"writeMarks", "ended"}
        /\ req'[r].pc = "writeMarks" =>
              /\ req'[r].chat = req[r].chat /\ req'[r].user = req[r].user
              /\ req'[r].chat \in ChatId /\ Exists(req'[r].chat) /\ req'[r].user \in User
              /\ req'[r].marks = [chats[req[r].chat].lastReadAt EXCEPT ![req[r].user] = now]
    BY <1>9, ReadMarksStep
  <2>3. CASE req'[r].pc = "ended"
    BY <1>1, <1>2, <2>1, <2>3, SameMarks, CalmUnread
  <2>4. CASE req'[r].pc = "writeMarks"
    <3>1. PICK c \in ChatId, me \in User :
              /\ c = req'[r].chat /\ me = req'[r].user /\ Exists(c)
              /\ req'[r].marks = [chats[c].lastReadAt EXCEPT ![me] = now]
      BY <2>2, <2>4
    <3>2. chats[c].lastReadAt \in [User -> Nat] /\ now \in Nat
      BY <1>1, <3>1, Existing DEF Chat, TypeOK
    <3>3. /\ req'[r].marks[me] = now
          /\ \A u \in User \ {me} : req'[r].marks[u] = chats[c].lastReadAt[u]
      BY <3>1, <3>2
    <3>4. \A m \in Request : Inserted(m) => messages[m].createdAt <= now
      BY <1>2 DEF DatesOK
    <3>5. req'[r].marks[req'[r].user] <= now'
      BY <2>1, <3>1, <3>2, <3>3
    <3>6. \A u \in User \ {req'[r].user} : req'[r].marks[u] = chats'[req'[r].chat].lastReadAt[u]
      BY <2>1, <3>1, <3>3
    <3>7. \A m \in Request : Inserted(m)' => messages'[m].createdAt <= req'[r].marks[req'[r].user]
      BY <2>1, <3>1, <3>3, <3>4 DEF Inserted
    <3>8. StampOK(r)'
      BY <2>4, <3>5, <3>6, <3>7 DEF StampOK, Mark
    <3> QED BY <1>1, <1>2, <2>1, <3>8, SameMarks, QuietUnread
  <2> QED BY <2>2, <2>3, <2>4
<1> QED BY <1>3, <1>4, <1>5, <1>6, <1>7, <1>8, <1>9

\* So does every other step.
LEMMA UnreadKeeps == ListInv /\ StatusInv /\ UnreadInv /\ [Next]_vars => UnreadInv'
<1> SUFFICES ASSUME ListInv, StatusInv, UnreadInv, [Next]_vars, ~overlapped' PROVE UnreadInv'
  BY DEF UnreadInv
<1>1. CASE Connect \/ Tick \/ UNCHANGED vars
  <2>1. /\ UNCHANGED <<chats, messages, overlapped, unseen, req>> /\ Grown
        /\ now' = now \/ now' = now + 1
    BY <1>1, WorldStep
  <2>2. DatesOK /\ MarksOK /\ \A q \in Request : StampOK(q)
    BY <2>1 DEF UnreadInv
  <2>3. DatesOK' /\ MarksOK'
    BY <2>1, <2>2, SameMarks, QuietMarks
  <2>4. \A q \in Request : StampOK(q)'
    BY <2>1, <2>2, SameMarks, QuietStamp
  <2> QED BY <2>3, <2>4 DEF UnreadInv
<1>2. ASSUME NEW r \in Request, Receive(r) PROVE UnreadInv'
  <2>1. /\ UNCHANGED <<chats, messages, unseen, now>> /\ ~overlapped /\ req[r].pc = "idle"
    BY <1>2 DEF Receive, documents
  <2>2. /\ Grown /\ Others(r)
        /\ req'[r].pc \in {"checkMe", "findPending", "readMarks", "findChatOfSender"}
    BY <1>2, ReceiveStep
  <2>3. ~Inserted(r)'
    BY <2>1 DEF UnreadInv, StampOK, Inserted
  <2>4. StampOK(r)'
    BY <2>2, <2>3 DEF StampOK
  <2> QED BY <2>1, <2>2, <2>4, SameMarks, QuietUnread
<1>3. CASE \E r \in Request :
             \/ CheckMe(r) \/ FindSingleChat(r) \/ CreateChat(r) \/ AddToLists(r)
             \/ FindPending(r) \/ SetStatus(r) \/ ReadMarks(r) \/ WriteMarks(r)
             \/ FindChatOfSender(r) \/ InsertMessage(r) \/ UpdateLast(r) \/ Fail(r)
  BY <1>3, UnreadStep
<1> QED BY <1>1, <1>2, <1>3 DEF Next

\* The first state has no message.
LEMMA UnreadStart == Init => UnreadInv
<1> SUFFICES ASSUME Init PROVE UnreadInv
  OBVIOUS
<1>1. \A m \in Request : ~Inserted(m)
  BY DEF Init, Inserted
<1>2. ASSUME NEW c \in ChatId, Exists(c), NEW u \in User PROVE Mark(c, u) <= now
  <2>1. chats[c].lastReadAt = NoMarks
    BY <1>2 DEF Init, Exists, NewChat
  <2> QED BY <2>1 DEF Init, Mark, NoMarks, Never
<1>3. DatesOK
  BY <1>1, <1>2 DEF Init, DatesOK
<1>4. MarksOK
  BY <1>1 DEF MarksOK
<1>5. \A r \in Request : StampOK(r)
  BY <1>1 DEF Init, Idle, StampOK
<1> QED BY <1>3, <1>4, <1>5 DEF UnreadInv

\* While requests come one at a time, the unread messages of the chat list are
\* those sent since the user's last mark, but for a message stamped in the
\* millisecond of the mark, for any users, chats and messages.
THEOREM UnreadExact == Spec => []UnreadExactOneAtATime
<1>1. ListInv /\ UnreadInv => UnreadExactOneAtATime
  <2> SUFFICES ASSUME ListInv, UnreadInv, ~overlapped,
                      NEW u \in User, NEW c \in ChatId, Exists(c), u \in Users(c)
               PROVE  LET since == {m \in unseen[u] : messages[m].chat = c}
                      IN  /\ Unread(u, c) \subseteq since
                          /\ \A m \in since \ Unread(u, c) :
                                messages[m].createdAt = chats[c].lastReadAt[u]
    BY DEF UnreadExactOneAtATime
  <2>1. TypeOK /\ DatesOK /\ MarksOK
    BY DEF ListInv, UnreadInv
  <2>2. Mark(c, u) \in Nat
    BY <2>1, MarkTyped
  <2>3. ASSUME NEW m \in Unread(u, c) PROVE m \in unseen[u] /\ messages[m].chat = c
    <3>1. /\ m \in Request /\ Inserted(m) /\ messages[m].chat = c /\ messages[m].sender # u
          /\ Mark(c, u) = Never \/ messages[m].createdAt > Mark(c, u)
      BY DEF Unread, Inserted, Mark
    <3>2. messages[m].createdAt \in Nat \ {0}
      BY <2>1, <3>1, InsertedTyped DEF Message
    <3>3. m \notin unseen[u] => messages[m].createdAt <= Mark(c, u)
      BY <2>1, <3>1 DEF MarksOK
    <3> QED BY <2>2, <3>1, <3>2, <3>3 DEF Never
  <2>4. ASSUME NEW m \in unseen[u], messages[m].chat = c, m \notin Unread(u, c)
        PROVE  messages[m].createdAt = chats[c].lastReadAt[u]
    <3>1. m \in Request /\ Inserted(m) /\ messages[m].sender # u
      BY <2>1 DEF DatesOK, TypeOK
    <3>2. messages[m].createdAt \in Nat \ {0}
      BY <2>1, <3>1, InsertedTyped DEF Message
    <3>3. ~(messages[m].createdAt > Mark(c, u))
      BY <2>4, <3>1 DEF Unread, Inserted, Mark
    <3>4. Mark(c, u) <= messages[m].createdAt
      BY <2>1, <2>4, <3>1 DEF MarksOK
    <3>5. messages[m].createdAt = Mark(c, u)
      BY <2>2, <3>2, <3>3, <3>4
    <3> QED BY <3>5 DEF Mark
  <2> QED BY <2>3, <2>4
<1> QED BY <1>1, ListHolds, UnreadStart, UnreadKeeps, StatusHolds, PTL DEF Spec
=============================================================================
