-------------------------- MODULE ConnectionsProofs --------------------------
(***************************************************************************)
(* Connections for any users and requests: types, that a connection rests  *)
(* on the word of both, that what is announced is so, that the documents   *)
(* agree, and that requests one at a time connect who asked for each other.*)
(***************************************************************************)
EXTENDS Connections, FiniteSetTheorems, TLAPS

Working ==
    [pc : {"find", "connectTarget", "connectMe", "addPending"}, me : User, target : User]

Labels == {"find", "connectTarget", "connectMe", "addPending"}

\* A request whose pc is a label is at work, and has its two users.
LEMMA AtWork ==
    ASSUME TypeOK, NEW r \in Request, req[r].pc \in Labels
    PROVE  /\ req[r] \in Working
           /\ req[r].me \in User /\ req[r].target \in User
BY DEF TypeOK, Working, Labels, Idle, Finished

\* The requests in flight are those at a label.
LEMMA ActiveAtWork ==
    ASSUME TypeOK, NEW r \in Request PROVE r \in Active <=> req[r].pc \in Labels
BY DEF TypeOK, Active, Labels, Idle, Finished

\* A request that moves on keeps its users, and no other request moves.
LEMMA GotoTyped ==
    ASSUME TypeOK, NEW r \in Request, req[r].pc \in Labels, NEW l \in Labels, req' = Goto(r, l)
    PROVE  /\ req' \in [Request -> {Idle, Finished} \cup Working]
           /\ \A q \in Request : q # r => req'[q] = req[q]
           /\ req'[r].pc = l /\ req'[r].me = req[r].me /\ req'[r].target = req[r].target
<1>1. req[r] \in Working
  BY AtWork
<1>2. [req[r] EXCEPT !.pc = l] \in Working
  BY <1>1 DEF Working, Labels
<1>3. req' = [req EXCEPT ![r] = [req[r] EXCEPT !.pc = l]]
  BY DEF Goto
<1>4. req \in [Request -> {Idle, Finished} \cup Working]
  BY DEF TypeOK, Working
<1> QED BY <1>1, <1>2, <1>3, <1>4 DEF Working

\* A request that ends leaves the others where they are.
LEMMA DoneTyped ==
    ASSUME TypeOK, NEW r \in Request, req' = Done(r)
    PROVE  /\ req' \in [Request -> {Idle, Finished} \cup Working]
           /\ \A q \in Request : q # r => req'[q] = req[q]
           /\ req'[r] = Finished
BY DEF TypeOK, Done, Working

\* What a request at work announces is a notification.
LEMMA NoticeTyped ==
    ASSUME TypeOK, NEW r \in Request, req[r].pc \in Labels,
           NEW type \in {"CONNECTION", "PENDING_CONNECTION"}
    PROVE  Notice(type, r) \in NoticeType
BY AtWork DEF Notice, NoticeType

\* One more entry of one array: the other counts stay, none falls.
LEMMA PlusTyped ==
    ASSUME NEW f \in [User -> [User -> Nat]], NEW u \in User, NEW v \in User
    PROVE  /\ Plus(f, u, v) \in [User -> [User -> Nat]]
           /\ Plus(f, u, v)[u][v] > 0
           /\ \A a, b \in User : Plus(f, u, v)[a][b] >= f[a][b]
           /\ \A a, b \in User : ~(a = u /\ b = v) => Plus(f, u, v)[a][b] = f[a][b]
<1>1. Plus(f, u, v) = [f EXCEPT ![u] = [f[u] EXCEPT ![v] = f[u][v] + 1]]
  BY DEF Plus
<1>2. [f[u] EXCEPT ![v] = f[u][v] + 1] \in [User -> Nat]
  OBVIOUS
<1>3. Plus(f, u, v) \in [User -> [User -> Nat]]
  BY <1>1, <1>2
<1>4. \A a, b \in User :
         Plus(f, u, v)[a][b] = IF a = u /\ b = v THEN f[a][b] + 1 ELSE f[a][b]
  BY <1>1
<1> QED BY <1>3, <1>4

-----------------------------------------------------------------------------
(* Types.                                                                  *)

\* The documents, the requests and the notifications keep their types.
THEOREM TypeCorrect == Spec => []TypeOK
<1>1. Init => TypeOK
  <2> SUFFICES ASSUME Init PROVE TypeOK
    OBVIOUS
  <2>1. Count0 \in [User -> [User -> Nat]]
    BY DEF Count0
  <2>2. req \in [Request -> {Idle, Finished} \cup Working]
    BY DEF Init
  <2> QED BY <2>1, <2>2 DEF Init, TypeOK, Working
<1>2. TypeOK /\ [Next]_vars => TypeOK'
  <2> SUFFICES ASSUME TypeOK, [Next]_vars PROVE TypeOK'
    OBVIOUS
  <2>1. ASSUME NEW r \in Request, Send(r) PROVE TypeOK'
    <3>1. PICK me \in User, target \in User :
             /\ req' = [req EXCEPT ![r] = [pc |-> "find", me |-> me, target |-> target]]
             /\ asked' = [asked EXCEPT ![me] = @ \cup {target}]
      BY <2>1 DEF Send
    <3>2. [pc |-> "find", me |-> me, target |-> target] \in Working
      BY DEF Working
    <3>3. req' \in [Request -> {Idle, Finished} \cup Working]
      BY <3>1, <3>2 DEF TypeOK, Working
    <3>4. asked' \in [User -> SUBSET User]
      BY <3>1 DEF TypeOK
    <3>5. overlapped' \in BOOLEAN
      BY <2>1, Zenon DEF Send, TypeOK
    <3> QED BY <2>1, <3>3, <3>4, <3>5 DEF Send, TypeOK, Working, docs
  <2>2. ASSUME NEW r \in Request, Find(r) PROVE TypeOK'
    <3>1. PICK l \in Labels : req' = Goto(r, l)
      BY <2>2 DEF Find, Labels
    <3>2. req[r].pc \in Labels
      BY <2>2 DEF Find, Labels
    <3> QED BY <2>2, <3>1, <3>2, GotoTyped DEF Find, TypeOK, Working, docs, history
  <2>3. ASSUME NEW r \in Request, ConnectTarget(r) PROVE TypeOK'
    <3>1. req[r].pc \in Labels
      BY <2>3 DEF ConnectTarget, Labels
    <3>2. req' \in [Request -> {Idle, Finished} \cup Working]
      BY <2>3, <3>1, GotoTyped DEF ConnectTarget, Labels
    <3>3. connections' \in [User -> [User -> Nat]]
      BY <2>3, <3>1, AtWork, PlusTyped DEF ConnectTarget, TypeOK
    <3>4. pendingConnections' \in [User -> [User -> Nat]]
      BY <2>3, <3>1, AtWork DEF ConnectTarget, TypeOK
    <3> QED BY <2>3, <3>2, <3>3, <3>4 DEF ConnectTarget, TypeOK, Working, history
  <2>4. ASSUME NEW r \in Request, ConnectMe(r) PROVE TypeOK'
    <3>1. req[r].pc \in Labels
      BY <2>4 DEF ConnectMe, Labels
    <3>2. req' \in [Request -> {Idle, Finished} \cup Working]
      BY <2>4, DoneTyped DEF ConnectMe
    <3>3. connections' \in [User -> [User -> Nat]]
      BY <2>4, <3>1, AtWork, PlusTyped DEF ConnectMe, TypeOK
    <3>4. background' \subseteq NoticeType
      BY <2>4, <3>1, NoticeTyped DEF ConnectMe, TypeOK
    <3> QED BY <2>4, <3>2, <3>3, <3>4 DEF ConnectMe, TypeOK, Working, history
  <2>5. ASSUME NEW r \in Request, AddPending(r) PROVE TypeOK'
    <3>1. req[r].pc \in Labels
      BY <2>5 DEF AddPending, Labels
    <3>2. req' \in [Request -> {Idle, Finished} \cup Working]
      BY <2>5, DoneTyped DEF AddPending
    <3>3. pendingConnections' \in [User -> [User -> Nat]]
      BY <2>5, <3>1, AtWork, PlusTyped DEF AddPending, TypeOK
    <3>4. background' \subseteq NoticeType
      BY <2>5, <3>1, NoticeTyped DEF AddPending, TypeOK
    <3> QED BY <2>5, <3>2, <3>3, <3>4 DEF AddPending, TypeOK, Working, history
  <2>6. ASSUME NEW r \in Request, Abort(r) PROVE TypeOK'
    BY <2>6, DoneTyped DEF Abort, TypeOK, Working, docs
  <2>7. ASSUME NEW n \in background, Notify(n) \/ LoseNotice(n) PROVE TypeOK'
    BY <2>7 DEF Notify, LoseNotice, TypeOK, docs, history
  <2>8. CASE UNCHANGED vars
    BY <2>8 DEF vars, docs, history, TypeOK
  <2> QED BY <2>1, <2>2, <2>3, <2>4, <2>5, <2>6, <2>7, <2>8 DEF Next
<1> QED BY <1>1, <1>2, PTL DEF Spec

-----------------------------------------------------------------------------
(* Connections rest on the word of both.                                   *)

Both(u, v) == v \in asked[u] /\ u \in asked[v]

\* What a request has asked for and found.  A pending entry backs the look-up, the
\* look-up backs the connection, and the first of its two writes backs the second.
RequestInv(r) ==
    /\ req[r].pc \in Labels => req[r].target \in asked[req[r].me]
    /\ req[r].pc \in {"connectTarget", "connectMe"} => Both(req[r].me, req[r].target)
    /\ req[r].pc = "connectMe" => connections[req[r].target][req[r].me] > 0

Announced(ns) ==
    \A n \in ns : n.type = "CONNECTION" =>
        connections[n.from][n.to] > 0 /\ connections[n.to][n.from] > 0

ConsentInv ==
    /\ ConnectedOnlyIfBothAsked
    /\ \A u, v \in User : pendingConnections[u][v] > 0 => v \in asked[u]
    /\ \A r \in Request : RequestInv(r)
    /\ Announced(background) /\ Announced(notices)

\* The invariant holds before any request.
LEMMA ConsentStart == Init => ConsentInv
BY DEF Init, ConsentInv, Announced, ConnectedOnlyIfBothAsked, RequestInv, Count0, Idle, Labels

\* The words of the users, and connections, are never taken back.
Kept ==
    /\ \A u, v \in User : v \in asked[u] => v \in asked'[u]
    /\ \A u, v \in User : connections[u][v] > 0 => connections'[u][v] > 0

\* What holds of a request still holds when it has not moved.
LEMMA RestingRequest ==
    ASSUME TypeOK, Kept, NEW r \in Request, RequestInv(r), req'[r] = req[r]
    PROVE  RequestInv(r)'
BY AtWork DEF RequestInv, Kept, Both, Labels

\* An announcement that was true stays true.
LEMMA OldNotices ==
    ASSUME TypeOK, Kept, ConsentInv
    PROVE  \A n \in background \cup notices : n.type = "CONNECTION" =>
               connections'[n.from][n.to] > 0 /\ connections'[n.to][n.from] > 0
<1> SUFFICES ASSUME NEW n \in background \cup notices, n.type = "CONNECTION"
             PROVE  connections'[n.from][n.to] > 0 /\ connections'[n.to][n.from] > 0
  OBVIOUS
<1>1. n.from \in User /\ n.to \in User
  BY DEF TypeOK, NoticeType
<1>2. connections[n.from][n.to] > 0 /\ connections[n.to][n.from] > 0
  BY DEF ConsentInv, Announced
<1> QED BY <1>1, <1>2 DEF Kept

\* Every step keeps it.
LEMMA ConsentStep == TypeOK /\ ConsentInv /\ [Next]_vars => ConsentInv'
<1> SUFFICES ASSUME TypeOK, ConsentInv, [Next]_vars PROVE ConsentInv'
  OBVIOUS
<1>1. ASSUME NEW r \in Request, Send(r) PROVE ConsentInv'
  <2>1. PICK me \in User, target \in User :
           /\ req' = [req EXCEPT ![r] = [pc |-> "find", me |-> me, target |-> target]]
           /\ asked' = [asked EXCEPT ![me] = @ \cup {target}]
    BY <1>1 DEF Send
  <2>2. UNCHANGED <<docs, notices, background>>
    BY <1>1 DEF Send
  <2>3. Kept
    BY <2>1, <2>2 DEF Kept, TypeOK, docs
  <2>4. RequestInv(r)'
    BY <2>1 DEF RequestInv, TypeOK
  <2>5. \A q \in Request : q # r => req'[q] = req[q]
    BY <2>1 DEF TypeOK
  <2>6. \A q \in Request : RequestInv(q)'
    BY <2>3, <2>4, <2>5, RestingRequest DEF ConsentInv
  <2>7. Announced(background)' /\ Announced(notices)'
    BY <2>2, <2>3, OldNotices DEF Announced
  <2>8. ConnectedOnlyIfBothAsked'
    BY <2>2, <2>3 DEF ConsentInv, ConnectedOnlyIfBothAsked, Kept, docs
  <2>9. \A u, v \in User : pendingConnections'[u][v] > 0 => v \in asked'[u]
    BY <2>2, <2>3 DEF ConsentInv, Kept, docs
  <2> QED BY <2>6, <2>7, <2>8, <2>9 DEF ConsentInv
<1>2. ASSUME NEW r \in Request, Find(r) PROVE ConsentInv'
  <2>1. req[r].pc = "find" /\ req[r].pc \in Labels
    BY <1>2 DEF Find, Labels
  <2>2. UNCHANGED <<docs, notices, background, asked>>
    BY <1>2 DEF Find, history
  <2>3. Kept
    BY <2>2 DEF Kept, docs
  <2>4. PICK l \in {"connectTarget", "addPending"} :
           /\ req' = Goto(r, l)
           /\ l = "connectTarget" => pendingConnections[req[r].target][req[r].me] > 0
    BY <1>2 DEF Find
  <2>5. /\ \A q \in Request : q # r => req'[q] = req[q]
        /\ req'[r].pc = l /\ req'[r].me = req[r].me /\ req'[r].target = req[r].target
    BY <2>1, <2>4, GotoTyped DEF Labels
  <2>6. RequestInv(r)'
    BY <2>1, <2>2, <2>4, <2>5, AtWork DEF ConsentInv, RequestInv, Both, Labels, docs
  <2>7. \A q \in Request : RequestInv(q)'
    BY <2>3, <2>5, <2>6, RestingRequest DEF ConsentInv
  <2>8. Announced(background)' /\ Announced(notices)'
    BY <2>2, <2>3, OldNotices DEF Announced
  <2> QED BY <2>2, <2>7, <2>8 DEF ConsentInv, ConnectedOnlyIfBothAsked, docs
<1>3. ASSUME NEW r \in Request, ConnectTarget(r) PROVE ConsentInv'
  <2> DEFINE me == req[r].me  target == req[r].target
  <2>1. req[r].pc = "connectTarget" /\ req[r].pc \in Labels
    BY <1>3 DEF ConnectTarget, Labels
  <2>2. me \in User /\ target \in User
    BY <2>1, AtWork
  <2>3. UNCHANGED <<notices, background, asked>>
    BY <1>3 DEF ConnectTarget, history
  <2>4. /\ connections' = Plus(connections, target, me)
        /\ pendingConnections' = [pendingConnections EXCEPT ![target][me] = 0]
        /\ req' = Goto(r, "connectMe")
    BY <1>3 DEF ConnectTarget
  <2>5. /\ connections'[target][me] > 0
        /\ \A u, v \in User : connections'[u][v] >= connections[u][v]
        /\ \A u, v \in User : ~(u = target /\ v = me) => connections'[u][v] = connections[u][v]
        /\ connections' \in [User -> [User -> Nat]]
    <3>1. connections \in [User -> [User -> Nat]]
      BY DEF TypeOK
    <3>2. /\ Plus(connections, target, me) \in [User -> [User -> Nat]]
          /\ Plus(connections, target, me)[target][me] > 0
          /\ \A u, v \in User : Plus(connections, target, me)[u][v] >= connections[u][v]
          /\ \A u, v \in User : ~(u = target /\ v = me) =>
                Plus(connections, target, me)[u][v] = connections[u][v]
      <4> HIDE DEF me, target
      <4> QED BY <2>2, <3>1, PlusTyped, Zenon
    <3> QED BY <2>4, <3>2, Zenon
  <2>6. Kept
    BY <2>3, <2>5 DEF Kept, TypeOK
  <2>7. Both(me, target)
    BY <2>1 DEF ConsentInv, RequestInv
  <2>8. /\ \A q \in Request : q # r => req'[q] = req[q]
        /\ req'[r].pc = "connectMe" /\ req'[r].me = me /\ req'[r].target = target
    BY <2>1, <2>4, GotoTyped DEF Labels
  <2>9. RequestInv(r)'
    BY <2>3, <2>5, <2>7, <2>8 DEF RequestInv, Both
  <2>10. \A q \in Request : RequestInv(q)'
    BY <2>6, <2>8, <2>9, RestingRequest DEF ConsentInv
  <2>11. ConnectedOnlyIfBothAsked'
    BY <2>3, <2>5, <2>7 DEF ConsentInv, ConnectedOnlyIfBothAsked, Both
  <2>12. \A u, v \in User : pendingConnections'[u][v] > 0 => v \in asked'[u]
    <3>1. \A u, v \in User : pendingConnections'[u][v] > 0 => pendingConnections[u][v] > 0
      BY <2>2, <2>4 DEF TypeOK
    <3> QED BY <2>3, <3>1 DEF ConsentInv
  <2>13. Announced(background)' /\ Announced(notices)'
    BY <2>3, <2>6, OldNotices DEF Announced
  <2> QED BY <2>10, <2>11, <2>12, <2>13 DEF ConsentInv
<1>4. ASSUME NEW r \in Request, ConnectMe(r) PROVE ConsentInv'
  <2> DEFINE me == req[r].me  target == req[r].target
  <2>1. req[r].pc = "connectMe" /\ req[r].pc \in Labels
    BY <1>4 DEF ConnectMe, Labels
  <2>2. me \in User /\ target \in User
    BY <2>1, AtWork
  <2>3. UNCHANGED <<pendingConnections, notices, asked>>
    BY <1>4 DEF ConnectMe, history
  <2>4. /\ connections' = Plus(connections, me, target)
        /\ req' = Done(r)
        /\ background' = background \cup {Notice("CONNECTION", r)}
    BY <1>4 DEF ConnectMe
  <2>5. /\ connections'[me][target] > 0
        /\ \A u, v \in User : connections'[u][v] >= connections[u][v]
        /\ \A u, v \in User : ~(u = me /\ v = target) => connections'[u][v] = connections[u][v]
        /\ connections' \in [User -> [User -> Nat]]
    <3>1. connections \in [User -> [User -> Nat]]
      BY DEF TypeOK
    <3>2. /\ Plus(connections, me, target) \in [User -> [User -> Nat]]
          /\ Plus(connections, me, target)[me][target] > 0
          /\ \A u, v \in User : Plus(connections, me, target)[u][v] >= connections[u][v]
          /\ \A u, v \in User : ~(u = me /\ v = target) =>
                Plus(connections, me, target)[u][v] = connections[u][v]
      <4> HIDE DEF me, target
      <4> QED BY <2>2, <3>1, PlusTyped, Zenon
    <3> QED BY <2>4, <3>2, Zenon
  <2>6. Kept
    BY <2>3, <2>5 DEF Kept, TypeOK
  <2>7. Both(me, target) /\ connections[target][me] > 0
    BY <2>1 DEF ConsentInv, RequestInv
  <2>8. /\ \A q \in Request : q # r => req'[q] = req[q]
        /\ req'[r] = Finished
    BY <2>4, DoneTyped
  <2>9. RequestInv(r)'
    BY <2>8 DEF RequestInv, Finished, Labels
  <2>10. \A q \in Request : RequestInv(q)'
    BY <2>6, <2>8, <2>9, RestingRequest DEF ConsentInv
  <2>11. ConnectedOnlyIfBothAsked'
    BY <2>3, <2>5, <2>7 DEF ConsentInv, ConnectedOnlyIfBothAsked, Both
  <2>12. connections'[me][target] > 0 /\ connections'[target][me] > 0
    BY <2>2, <2>5, <2>6, <2>7 DEF Kept
  <2>13. Announced(background)' /\ Announced(notices)'
    <3>1. LET n == Notice("CONNECTION", r)
          IN  connections'[n.from][n.to] > 0 /\ connections'[n.to][n.from] > 0
      BY <2>12 DEF Notice
    <3> QED BY <2>3, <2>4, <2>6, <3>1, OldNotices DEF Announced
  <2> QED BY <2>3, <2>10, <2>11, <2>13 DEF ConsentInv
<1>5. ASSUME NEW r \in Request, AddPending(r) PROVE ConsentInv'
  <2> DEFINE me == req[r].me  target == req[r].target
  <2>1. req[r].pc = "addPending" /\ req[r].pc \in Labels
    BY <1>5 DEF AddPending, Labels
  <2>2. me \in User /\ target \in User
    BY <2>1, AtWork
  <2>3. UNCHANGED <<connections, notices, asked>>
    BY <1>5 DEF AddPending, history
  <2>4. /\ pendingConnections' = Plus(pendingConnections, me, target)
        /\ req' = Done(r)
        /\ background' = background \cup {Notice("PENDING_CONNECTION", r)}
    BY <1>5 DEF AddPending
  <2>5. Kept
    BY <2>3 DEF Kept
  <2>6. /\ \A q \in Request : q # r => req'[q] = req[q]
        /\ req'[r] = Finished
    BY <2>4, DoneTyped
  <2>7. RequestInv(r)'
    BY <2>6 DEF RequestInv, Finished, Labels
  <2>8. \A q \in Request : RequestInv(q)'
    BY <2>5, <2>6, <2>7, RestingRequest DEF ConsentInv
  <2>9. target \in asked[me]
    BY <2>1 DEF ConsentInv, RequestInv
  <2>10. \A u, v \in User : pendingConnections'[u][v] > 0 => v \in asked'[u]
    <3>1. pendingConnections \in [User -> [User -> Nat]]
      BY DEF TypeOK
    <3>2. \A u, v \in User : ~(u = me /\ v = target) =>
             pendingConnections'[u][v] = pendingConnections[u][v]
      <4> HIDE DEF me, target
      <4>1. \A u, v \in User : ~(u = me /\ v = target) =>
               Plus(pendingConnections, me, target)[u][v] = pendingConnections[u][v]
        BY <2>2, <3>1, PlusTyped, Zenon
      <4> QED BY <2>4, <4>1, Zenon
    <3> QED BY <2>3, <2>9, <3>2 DEF ConsentInv
  <2>11. Announced(background)' /\ Announced(notices)'
    <3>1. Notice("PENDING_CONNECTION", r).type # "CONNECTION"
      BY DEF Notice
    <3> QED BY <2>3, <2>4, <2>5, <3>1, OldNotices DEF Announced
  <2> QED BY <2>3, <2>8, <2>10, <2>11 DEF ConsentInv, ConnectedOnlyIfBothAsked
<1>6. ASSUME NEW r \in Request, Abort(r) PROVE ConsentInv'
  <2>1. UNCHANGED <<docs, notices, background, asked>> /\ req' = Done(r)
    BY <1>6 DEF Abort
  <2>2. Kept
    BY <2>1 DEF Kept, docs
  <2>3. RequestInv(r)' /\ \A q \in Request : q # r => req'[q] = req[q]
    BY <2>1, DoneTyped DEF RequestInv, Finished, Labels
  <2>4. \A q \in Request : RequestInv(q)'
    BY <2>2, <2>3, RestingRequest DEF ConsentInv
  <2>5. Announced(background)' /\ Announced(notices)'
    BY <2>1, <2>2, OldNotices DEF Announced
  <2> QED BY <2>1, <2>4, <2>5 DEF ConsentInv, ConnectedOnlyIfBothAsked, docs
<1>7. ASSUME NEW n \in background, Notify(n) \/ LoseNotice(n) PROVE ConsentInv'
  <2>1. UNCHANGED <<docs, req, asked>> /\ background' \cup notices' \subseteq background \cup notices
    BY <1>7 DEF Notify, LoseNotice, history
  <2>2. Kept
    BY <2>1 DEF Kept, docs
  <2>3. \A q \in Request : RequestInv(q)'
    BY <2>1, <2>2, RestingRequest DEF ConsentInv
  <2>4. Announced(background)' /\ Announced(notices)'
    BY <2>1, <2>2, OldNotices DEF Announced
  <2> QED BY <2>1, <2>3, <2>4 DEF ConsentInv, ConnectedOnlyIfBothAsked, docs
<1>8. CASE UNCHANGED vars
  <2>1. UNCHANGED <<docs, notices, req, background, asked>>
    BY <1>8 DEF vars, history
  <2> QED BY <2>1 DEF ConsentInv, ConnectedOnlyIfBothAsked, RequestInv, Both, Announced, docs
<1> QED BY <1>1, <1>2, <1>3, <1>4, <1>5, <1>6, <1>7, <1>8 DEF Next

\* However requests of any users interleave, repeat, cross and fail, nobody is
\* connected with somebody who did not ask for it.
THEOREM Consent == Spec => []ConnectedOnlyIfBothAsked
<1>1. ConsentInv => ConnectedOnlyIfBothAsked
  BY DEF ConsentInv
<1> QED BY <1>1, ConsentStart, ConsentStep, TypeCorrect, PTL DEF Spec

\* A notification that announces a connection is never sent before both
\* documents hold it, and they hold it from then on.
THEOREM AnnouncedConnected == Spec => []AnnouncedIsConnected
<1>1. ConsentInv => AnnouncedIsConnected
  BY DEF ConsentInv, AnnouncedIsConnected, Announced
<1> QED BY <1>1, ConsentStart, ConsentStep, TypeCorrect, PTL DEF Spec

-----------------------------------------------------------------------------
(* The two documents agree.                                                *)

\* The requests of u that have written v's document and not yet u's own.
HalfDone(u, v) == {r \in Request : req[r].pc = "connectMe" /\ req[r].me = u /\ req[r].target = v}

\* What one document is behind the other is what requests are still to write.
SymmetryInv ==
    ~aborted =>
        \A u, v \in User : u # v =>
            connections[u][v] + Cardinality(HalfDone(u, v)) =
            connections[v][u] + Cardinality(HalfDone(v, u))

\* The half-done requests can be counted.
LEMMA HalfDoneFinite ==
    ASSUME NEW u \in User, NEW v \in User
    PROVE  IsFiniteSet(HalfDone(u, v)) /\ Cardinality(HalfDone(u, v)) \in Nat
BY RequestAssumption, FS_Subset, FS_CardinalityType DEF HalfDone

\* A step of r that neither enters nor leaves the middle of a connection.
LEMMA HalfDoneSame ==
    ASSUME NEW r \in Request, \A q \in Request : q # r => req'[q] = req[q],
           req[r].pc # "connectMe", req'[r].pc # "connectMe"
    PROVE  \A u, v \in User : HalfDone(u, v)' = HalfDone(u, v)
BY DEF HalfDone

\* Every step keeps the balance of the two documents.
LEMMA SymmetryStep == TypeOK /\ SymmetryInv /\ [Next]_vars => SymmetryInv'
<1> SUFFICES ASSUME TypeOK, SymmetryInv, [Next]_vars, ~aborted' PROVE SymmetryInv'
  BY DEF SymmetryInv
<1>1. ASSUME NEW r \in Request, ~aborted, connections' = connections,
             \A q \in Request : q # r => req'[q] = req[q],
             req[r].pc # "connectMe", req'[r].pc # "connectMe"
      PROVE  SymmetryInv'
  <2>1. \A u, v \in User : HalfDone(u, v)' = HalfDone(u, v)
    BY <1>1, HalfDoneSame
  <2> QED BY <1>1, <2>1 DEF SymmetryInv
<1>2. ASSUME NEW r \in Request, Send(r) PROVE SymmetryInv'
  <2>1. ~aborted /\ connections' = connections
    BY <1>2 DEF Send, docs
  <2>2. /\ \A q \in Request : q # r => req'[q] = req[q]
        /\ req[r].pc # "connectMe" /\ req'[r].pc # "connectMe"
    BY <1>2 DEF Send, TypeOK
  <2> QED BY <2>1, <2>2, <1>1
<1>3. ASSUME NEW r \in Request, Find(r) PROVE SymmetryInv'
  <2>1. ~aborted /\ connections' = connections /\ req[r].pc = "find" /\ req[r].pc \in Labels
    BY <1>3 DEF Find, docs, history, Labels
  <2>2. PICK l \in {"connectTarget", "addPending"} : req' = Goto(r, l)
    BY <1>3 DEF Find
  <2>3. req'[r].pc = l /\ \A q \in Request : q # r => req'[q] = req[q]
    BY <2>1, <2>2, GotoTyped DEF Labels
  <2> QED BY <2>1, <2>3, <1>1
<1>4. ASSUME NEW r \in Request, AddPending(r) PROVE SymmetryInv'
  <2>1. ~aborted /\ connections' = connections /\ req[r].pc = "addPending" /\ req' = Done(r)
    BY <1>4 DEF AddPending, history
  <2>2. req'[r] = Finished /\ \A q \in Request : q # r => req'[q] = req[q]
    BY <2>1, DoneTyped
  <2> QED BY <2>1, <2>2, <1>1 DEF Finished
<1>5. ASSUME NEW r \in Request, ConnectTarget(r) PROVE SymmetryInv'
  <2> DEFINE me == req[r].me  target == req[r].target
  <2>1. req[r].pc = "connectTarget" /\ req[r].pc \in Labels /\ ~aborted
    BY <1>5 DEF ConnectTarget, Labels, history
  <2>2. me \in User /\ target \in User
    BY <2>1, AtWork
  <2>3. connections' = Plus(connections, target, me) /\ req' = Goto(r, "connectMe")
    BY <1>5 DEF ConnectTarget
  <2>4. /\ \A q \in Request : q # r => req'[q] = req[q]
        /\ req'[r].pc = "connectMe" /\ req'[r].me = me /\ req'[r].target = target
    BY <2>1, <2>3, GotoTyped DEF Labels
  <2>5. \A u, v \in User : connections'[u][v] =
           IF u = target /\ v = me THEN connections[u][v] + 1 ELSE connections[u][v]
    <3> HIDE DEF me, target
    <3> QED BY <2>2, <2>3 DEF Plus, TypeOK
  <2>6. \A u, v \in User : HalfDone(u, v)' =
           IF u = me /\ v = target THEN HalfDone(u, v) \cup {r} ELSE HalfDone(u, v)
    BY <2>1, <2>4 DEF HalfDone
  <2>7. \A u, v \in User : r \notin HalfDone(u, v)
    BY <2>1 DEF HalfDone
  <2>8. \A u, v \in User : Cardinality(HalfDone(u, v)') =
           IF u = me /\ v = target THEN Cardinality(HalfDone(u, v)) + 1
                                  ELSE Cardinality(HalfDone(u, v))
    <3>1. Cardinality(HalfDone(me, target) \cup {r}) = Cardinality(HalfDone(me, target)) + 1
      BY <2>2, <2>7, HalfDoneFinite, FS_AddElement
    <3> QED BY <2>6, <3>1
  <2>9. SUFFICES ASSUME NEW u \in User, NEW v \in User, u # v
                PROVE  connections'[u][v] + Cardinality(HalfDone(u, v)') =
                       connections'[v][u] + Cardinality(HalfDone(v, u)')
    BY DEF SymmetryInv
  <2>10. /\ connections[u][v] + Cardinality(HalfDone(u, v)) =
             connections[v][u] + Cardinality(HalfDone(v, u))
         /\ connections[u][v] \in Nat /\ connections[v][u] \in Nat
         /\ Cardinality(HalfDone(u, v)) \in Nat /\ Cardinality(HalfDone(v, u)) \in Nat
    BY <2>1, <2>9, HalfDoneFinite DEF SymmetryInv, TypeOK
  <2>11. CASE u = me /\ v = target
    BY <2>5, <2>8, <2>9, <2>10, <2>11
  <2>12. CASE u = target /\ v = me
    BY <2>5, <2>8, <2>9, <2>10, <2>12
  <2>13. CASE ~(u = me /\ v = target) /\ ~(u = target /\ v = me)
    <3>1. /\ connections'[u][v] = connections[u][v] /\ connections'[v][u] = connections[v][u]
          /\ Cardinality(HalfDone(u, v)') = Cardinality(HalfDone(u, v))
          /\ Cardinality(HalfDone(v, u)') = Cardinality(HalfDone(v, u))
      BY <2>5, <2>8, <2>10, <2>13
    <3> QED BY <2>10, <3>1
  <2> QED BY <2>11, <2>12, <2>13
<1>6. ASSUME NEW r \in Request, ConnectMe(r) PROVE SymmetryInv'
  <2> DEFINE me == req[r].me  target == req[r].target
  <2>1. req[r].pc = "connectMe" /\ req[r].pc \in Labels /\ ~aborted
    BY <1>6 DEF ConnectMe, Labels, history
  <2>2. me \in User /\ target \in User
    BY <2>1, AtWork
  <2>3. connections' = Plus(connections, me, target) /\ req' = Done(r)
    BY <1>6 DEF ConnectMe
  <2>4. req'[r] = Finished /\ \A q \in Request : q # r => req'[q] = req[q]
    BY <2>3, DoneTyped
  <2>5. \A u, v \in User : connections'[u][v] =
           IF u = me /\ v = target THEN connections[u][v] + 1 ELSE connections[u][v]
    <3> HIDE DEF me, target
    <3> QED BY <2>2, <2>3 DEF Plus, TypeOK
  <2>6. \A u, v \in User : HalfDone(u, v)' =
           IF u = me /\ v = target THEN HalfDone(u, v) \ {r} ELSE HalfDone(u, v)
    BY <2>1, <2>4 DEF HalfDone, Finished
  <2>7. r \in HalfDone(me, target)
    BY <2>1 DEF HalfDone
  <2>8. \A u, v \in User : Cardinality(HalfDone(u, v)') =
           IF u = me /\ v = target THEN Cardinality(HalfDone(u, v)) - 1
                                  ELSE Cardinality(HalfDone(u, v))
    <3>1. Cardinality(HalfDone(me, target) \ {r}) = Cardinality(HalfDone(me, target)) - 1
      BY <2>2, <2>7, HalfDoneFinite, FS_RemoveElement
    <3> QED BY <2>6, <3>1
  <2>9. SUFFICES ASSUME NEW u \in User, NEW v \in User, u # v
                PROVE  connections'[u][v] + Cardinality(HalfDone(u, v)') =
                       connections'[v][u] + Cardinality(HalfDone(v, u)')
    BY DEF SymmetryInv
  <2>10. /\ connections[u][v] + Cardinality(HalfDone(u, v)) =
             connections[v][u] + Cardinality(HalfDone(v, u))
         /\ connections[u][v] \in Nat /\ connections[v][u] \in Nat
         /\ Cardinality(HalfDone(u, v)) \in Nat /\ Cardinality(HalfDone(v, u)) \in Nat
    BY <2>1, <2>9, HalfDoneFinite DEF SymmetryInv, TypeOK
  <2>11. CASE u = me /\ v = target
    BY <2>5, <2>8, <2>9, <2>10, <2>11
  <2>12. CASE u = target /\ v = me
    BY <2>5, <2>8, <2>9, <2>10, <2>12
  <2>13. CASE ~(u = me /\ v = target) /\ ~(u = target /\ v = me)
    <3>1. /\ connections'[u][v] = connections[u][v] /\ connections'[v][u] = connections[v][u]
          /\ Cardinality(HalfDone(u, v)') = Cardinality(HalfDone(u, v))
          /\ Cardinality(HalfDone(v, u)') = Cardinality(HalfDone(v, u))
      BY <2>5, <2>8, <2>10, <2>13
    <3> QED BY <2>10, <3>1
  <2> QED BY <2>11, <2>12, <2>13
<1>7. ASSUME NEW r \in Request, Abort(r) PROVE SymmetryInv'
  BY <1>7 DEF Abort
<1>8. ASSUME NEW n \in background, Notify(n) \/ LoseNotice(n) PROVE SymmetryInv'
  <2>1. UNCHANGED <<connections, req>> /\ ~aborted
    BY <1>8 DEF Notify, LoseNotice, docs, history
  <2> QED BY <2>1 DEF SymmetryInv, HalfDone
<1>9. CASE UNCHANGED vars
  <2>1. UNCHANGED <<connections, req, aborted>>
    BY <1>9 DEF vars, docs, history
  <2> QED BY <2>1 DEF SymmetryInv, HalfDone
<1> QED BY <1>2, <1>3, <1>4, <1>5, <1>6, <1>7, <1>8, <1>9 DEF Next

\* Without a failure and with nothing in flight, the two documents of any pair
\* hold each other the same number of times, however their requests interleaved.
THEOREM Symmetric == Spec => []ConnectionsSymmetric
<1>1. Init => SymmetryInv
  <2> SUFFICES ASSUME Init PROVE SymmetryInv
    OBVIOUS
  <2>1. \A u, v \in User : HalfDone(u, v) = {}
    BY DEF Init, Idle, HalfDone
  <2> QED BY <2>1 DEF Init, SymmetryInv, Count0
<1>2. TypeOK /\ SymmetryInv => ConnectionsSymmetric
  <2> SUFFICES ASSUME TypeOK, SymmetryInv, Quiescent, ~aborted, NEW u \in User, NEW v \in User
               PROVE  connections[u][v] = connections[v][u]
    BY DEF ConnectionsSymmetric
  <2>1. \A a, b \in User : HalfDone(a, b) = {}
    BY ActiveAtWork DEF Quiescent, HalfDone, Labels
  <2>2. \A a, b \in User : Cardinality(HalfDone(a, b)) = 0
    BY <2>1, FS_EmptySet
  <2>3. connections[u][v] \in Nat /\ connections[v][u] \in Nat
    BY DEF TypeOK
  <2>4. u # v => connections[u][v] + 0 = connections[v][u] + 0
    BY <2>2 DEF SymmetryInv
  <2> QED BY <2>3, <2>4
<1>3. Spec => []SymmetryInv
  BY <1>1, SymmetryStep, TypeCorrect, PTL DEF Spec
<1> QED BY <1>2, <1>3, TypeCorrect, PTL

-----------------------------------------------------------------------------
(* Requests that come one at a time.                                       *)

Asking(u, v) ==
    \E r \in Request : req[r].pc \in Labels /\ req[r].me = u /\ req[r].target = v

\* An ask that is over has left its word in an array, and two users never both
\* wait for each other: the request that would make them is not sent to addPending.
SerialInv ==
    ~aborted /\ ~overlapped =>
        /\ \A r, q \in Active : r = q
        /\ \A u, v \in User : u # v /\ v \in asked[u] /\ ~Asking(u, v) =>
              pendingConnections[u][v] > 0 \/ connections[u][v] > 0
        /\ \A u, v \in User : u # v =>
              pendingConnections[u][v] = 0 \/ pendingConnections[v][u] = 0
        /\ \A r \in Request : req[r].pc = "addPending" =>
              pendingConnections[req[r].target][req[r].me] = 0

\* Every step of a request keeps it.
LEMMA SerialStep == TypeOK /\ SerialInv /\ [Next]_vars => SerialInv'
<1> SUFFICES ASSUME TypeOK, SerialInv, [Next]_vars, ~aborted', ~overlapped' PROVE SerialInv'
  BY DEF SerialInv
<1>1. ASSUME NEW r \in Request, Send(r) PROVE SerialInv'
  <2>1. PICK me \in User, target \in User :
           /\ req' = [req EXCEPT ![r] = [pc |-> "find", me |-> me, target |-> target]]
           /\ asked' = [asked EXCEPT ![me] = @ \cup {target}]
    BY <1>1 DEF Send
  <2>2. Active = {} /\ ~overlapped /\ ~aborted /\ UNCHANGED docs
    BY <1>1 DEF Send
  <2>3. /\ \A q \in Request : q # r => req'[q] = req[q]
        /\ req'[r].pc = "find" /\ req'[r].me = me /\ req'[r].target = target
    BY <2>1 DEF TypeOK
  <2>4. \A q \in Request : q # r => q \notin Active' /\ req'[q].pc # "addPending"
    BY <2>2, <2>3, ActiveAtWork DEF Active, Labels
  <2>5. \A u, v \in User : ~Asking(u, v)' =>
           ~Asking(u, v) /\ (v \in asked'[u] => v \in asked[u])
    <3> SUFFICES ASSUME NEW u \in User, NEW v \in User, ~Asking(u, v)'
                 PROVE  ~Asking(u, v) /\ (v \in asked'[u] => v \in asked[u])
      OBVIOUS
    <3>1. ~(u = me /\ v = target)
      BY <2>3 DEF Asking, Labels
    <3>2. v \in asked'[u] => v \in asked[u]
      BY <2>1, <3>1 DEF TypeOK
    <3>3. ~Asking(u, v)
      BY <2>2, ActiveAtWork DEF Asking
    <3> QED BY <3>2, <3>3
  <2>6. \A p, q \in Active' : p = q
    BY <2>4 DEF Active
  <2> QED BY <2>2, <2>3, <2>4, <2>5, <2>6 DEF SerialInv, docs
<1>2. ASSUME NEW r \in Request, Find(r) PROVE SerialInv'
  <2>1. /\ req[r].pc = "find" /\ req[r].pc \in Labels
        /\ UNCHANGED <<docs, asked, overlapped, aborted>>
    BY <1>2 DEF Find, history, Labels
  <2>2. PICK l \in {"connectTarget", "addPending"} :
           /\ req' = Goto(r, l)
           /\ l = "addPending" => ~(pendingConnections[req[r].target][req[r].me] > 0)
    BY <1>2 DEF Find
  <2>3. /\ \A q \in Request : q # r => req'[q] = req[q]
        /\ req'[r].pc = l /\ req'[r].me = req[r].me /\ req'[r].target = req[r].target
    BY <2>1, <2>2, GotoTyped DEF Labels
  <2>4. \A u, v \in User : Asking(u, v)' <=> Asking(u, v)
    BY <2>1, <2>3 DEF Asking, Labels
  <2>5. \A q \in Request : q \in Active' => q \in Active
    BY <2>1, <2>3, ActiveAtWork DEF Active
  <2>6. l = "addPending" => pendingConnections[req[r].target][req[r].me] = 0
    BY <2>1, <2>2, AtWork DEF TypeOK
  <2>7. \A q \in Request : req'[q].pc = "addPending" =>
           pendingConnections[req'[q].target][req'[q].me] = 0
    BY <2>1, <2>3, <2>6 DEF SerialInv
  <2>8. \A p, q \in Active' : p = q
    BY <2>1, <2>5 DEF SerialInv, Active
  <2> QED BY <2>1, <2>4, <2>7, <2>8 DEF SerialInv, docs
<1>3. ASSUME NEW r \in Request, ConnectTarget(r) PROVE SerialInv'
  <2> DEFINE me == req[r].me  target == req[r].target
  <2>1. /\ req[r].pc = "connectTarget" /\ req[r].pc \in Labels
        /\ UNCHANGED <<asked, overlapped, aborted>>
    BY <1>3 DEF ConnectTarget, history, Labels
  <2>2. me \in User /\ target \in User
    BY <2>1, AtWork
  <2>3. /\ connections' = Plus(connections, target, me)
        /\ pendingConnections' = [pendingConnections EXCEPT ![target][me] = 0]
        /\ req' = Goto(r, "connectMe")
    BY <1>3 DEF ConnectTarget
  <2>4. /\ \A q \in Request : q # r => req'[q] = req[q]
        /\ req'[r].pc = "connectMe" /\ req'[r].me = me /\ req'[r].target = target
    BY <2>1, <2>3, GotoTyped DEF Labels
  <2>5. \A u, v \in User : connections'[u][v] =
           IF u = target /\ v = me THEN connections[u][v] + 1 ELSE connections[u][v]
    <3> HIDE DEF me, target
    <3> QED BY <2>2, <2>3 DEF Plus, TypeOK
  <2>6. \A u, v \in User : pendingConnections'[u][v] =
           IF u = target /\ v = me THEN 0 ELSE pendingConnections[u][v]
    <3> HIDE DEF me, target
    <3> QED BY <2>2, <2>3 DEF TypeOK
  <2>7. \A u, v \in User : Asking(u, v)' <=> Asking(u, v)
    BY <2>1, <2>4 DEF Asking, Labels
  <2>8. \A q \in Request : q \in Active' => q \in Active
    BY <2>1, <2>4, ActiveAtWork DEF Active
  <2>9. r \in Active
    BY <2>1, ActiveAtWork
  <2>10. \A q \in Request : req'[q].pc # "addPending"
    <3> SUFFICES ASSUME NEW q \in Request, q # r PROVE req[q].pc # "addPending"
      BY <2>4
    <3> QED BY <2>1, <2>9, ActiveAtWork DEF SerialInv, Labels
  <2>11. \A p, q \in Active' : p = q
    BY <2>1, <2>8 DEF SerialInv, Active
  <2>12. \A u, v \in User : u # v /\ v \in asked'[u] /\ ~Asking(u, v)' =>
            pendingConnections'[u][v] > 0 \/ connections'[u][v] > 0
    BY <2>1, <2>5, <2>6, <2>7 DEF SerialInv, TypeOK
  <2>13. \A u, v \in User : u # v => pendingConnections'[u][v] = 0 \/ pendingConnections'[v][u] = 0
    BY <2>1, <2>6 DEF SerialInv
  <2> QED BY <2>10, <2>11, <2>12, <2>13 DEF SerialInv
<1>4. ASSUME NEW r \in Request, ConnectMe(r) PROVE SerialInv'
  <2> DEFINE me == req[r].me  target == req[r].target
  <2>1. /\ req[r].pc = "connectMe" /\ req[r].pc \in Labels
        /\ UNCHANGED <<pendingConnections, asked, overlapped, aborted>>
    BY <1>4 DEF ConnectMe, history, Labels
  <2>2. me \in User /\ target \in User
    BY <2>1, AtWork
  <2>3. connections' = Plus(connections, me, target) /\ req' = Done(r)
    BY <1>4 DEF ConnectMe
  <2>4. req'[r] = Finished /\ \A q \in Request : q # r => req'[q] = req[q]
    BY <2>3, DoneTyped
  <2>5. \A u, v \in User : connections'[u][v] =
           IF u = me /\ v = target THEN connections[u][v] + 1 ELSE connections[u][v]
    <3> HIDE DEF me, target
    <3> QED BY <2>2, <2>3 DEF Plus, TypeOK
  <2>6. \A q \in Request : q \in Active' => q \in Active
    BY <2>4 DEF Active, Finished
  <2>7. r \in Active
    BY <2>1, ActiveAtWork
  <2>8. \A q \in Request : req'[q].pc # "addPending"
    <3> SUFFICES ASSUME NEW q \in Request, q # r PROVE req[q].pc # "addPending"
      BY <2>4 DEF Finished
    <3> QED BY <2>1, <2>7, ActiveAtWork DEF SerialInv, Labels
  <2>9. \A p, q \in Active' : p = q
    BY <2>1, <2>6 DEF SerialInv, Active
  <2>10. \A u, v \in User : ~Asking(u, v)' => ~Asking(u, v) \/ (u = me /\ v = target)
    BY <2>4 DEF Asking
  <2>11. \A u, v \in User : u # v /\ v \in asked'[u] /\ ~Asking(u, v)' =>
            pendingConnections'[u][v] > 0 \/ connections'[u][v] > 0
    BY <2>1, <2>5, <2>10 DEF SerialInv, TypeOK
  <2> QED BY <2>1, <2>8, <2>9, <2>11 DEF SerialInv
<1>5. ASSUME NEW r \in Request, AddPending(r) PROVE SerialInv'
  <2> DEFINE me == req[r].me  target == req[r].target
  <2>1. /\ req[r].pc = "addPending" /\ req[r].pc \in Labels
        /\ UNCHANGED <<connections, asked, overlapped, aborted>>
    BY <1>5 DEF AddPending, history, Labels
  <2>2. me \in User /\ target \in User
    BY <2>1, AtWork
  <2>3. pendingConnections' = Plus(pendingConnections, me, target) /\ req' = Done(r)
    BY <1>5 DEF AddPending
  <2>4. req'[r] = Finished /\ \A q \in Request : q # r => req'[q] = req[q]
    BY <2>3, DoneTyped
  <2>5. \A u, v \in User : pendingConnections'[u][v] =
           IF u = me /\ v = target THEN pendingConnections[u][v] + 1 ELSE pendingConnections[u][v]
    <3> HIDE DEF me, target
    <3> QED BY <2>2, <2>3 DEF Plus, TypeOK
  <2>6. \A q \in Request : q \in Active' => q \in Active
    BY <2>4 DEF Active, Finished
  <2>7. r \in Active
    BY <2>1, ActiveAtWork
  <2>8. \A q \in Request : req'[q].pc # "addPending"
    <3> SUFFICES ASSUME NEW q \in Request, q # r PROVE req[q].pc # "addPending"
      BY <2>4 DEF Finished
    <3> QED BY <2>1, <2>7, ActiveAtWork DEF SerialInv, Labels
  <2>9. \A p, q \in Active' : p = q
    BY <2>1, <2>6 DEF SerialInv, Active
  <2>10. \A u, v \in User : ~Asking(u, v)' => ~Asking(u, v) \/ (u = me /\ v = target)
    BY <2>4 DEF Asking
  <2>11. \A u, v \in User : u # v /\ v \in asked'[u] /\ ~Asking(u, v)' =>
            pendingConnections'[u][v] > 0 \/ connections'[u][v] > 0
    BY <2>1, <2>5, <2>10 DEF SerialInv, TypeOK
  <2>12. pendingConnections[target][me] = 0
    BY <2>1 DEF SerialInv
  <2>13. \A u, v \in User : u # v => pendingConnections'[u][v] = 0 \/ pendingConnections'[v][u] = 0
    BY <2>1, <2>5, <2>12 DEF SerialInv
  <2> QED BY <2>8, <2>9, <2>11, <2>13 DEF SerialInv
<1>6. ASSUME NEW r \in Request, Abort(r) PROVE SerialInv'
  BY <1>6 DEF Abort
<1>7. CASE (\E n \in background : Notify(n) \/ LoseNotice(n)) \/ UNCHANGED vars
  <2>1. UNCHANGED <<docs, req, asked>> /\ ~overlapped /\ ~aborted
    BY <1>7 DEF Notify, LoseNotice, vars, history
  <2> QED BY <2>1 DEF SerialInv, Asking, Active, docs
<1> QED BY <1>1, <1>2, <1>3, <1>4, <1>5, <1>6, <1>7 DEF Next

\* One request at a time, and without a failure, two users who have both asked
\* end up connected, whoever asked first and however often.
THEOREM MutualConnects == Spec => []MutualRequestConnects
<1>1. Init => SerialInv
  BY DEF Init, SerialInv, Active, Idle, Count0, Labels
<1>2. TypeOK /\ SerialInv /\ ConnectionsSymmetric => MutualRequestConnects
  <2> SUFFICES ASSUME TypeOK, SerialInv, ConnectionsSymmetric, Quiescent, ~aborted, ~overlapped,
                      NEW u \in User, NEW v \in User, u # v, v \in asked[u], u \in asked[v]
               PROVE  /\ connections[u][v] > 0
                      /\ pendingConnections[u][v] = 0 \/ pendingConnections[v][u] = 0
    BY DEF MutualRequestConnects
  <2>1. ~Asking(u, v) /\ ~Asking(v, u)
    BY ActiveAtWork DEF Quiescent, Asking
  <2>2. connections[u][v] > 0 \/ connections[v][u] > 0
    BY <2>1 DEF SerialInv, TypeOK
  <2>3. connections[u][v] = connections[v][u]
    BY DEF ConnectionsSymmetric
  <2> QED BY <2>2, <2>3 DEF SerialInv
<1>3. Spec => []SerialInv
  BY <1>1, SerialStep, TypeCorrect, PTL DEF Spec
<1> QED BY <1>2, <1>3, Symmetric, TypeCorrect, PTL
=============================================================================
