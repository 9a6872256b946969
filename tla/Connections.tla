----------------------------- MODULE Connections -----------------------------
(***************************************************************************)
(* Connection requests: UsersService.connectUser.                          *)
(*                                                                         *)
(* A user who asks to connect either finds that the other has asked before *)
(* and is connected, which writes both documents in turn, or is left in    *)
(* its own pendingConnections.  The look-up and the writes are separate    *)
(* awaits; the notification is started and not awaited.                    *)
(***************************************************************************)
EXTENDS Naturals, FiniteSets

CONSTANTS
    User,
    Request     \* bound: requests in all, each used once

ASSUME RequestAssumption == IsFiniteSet(Request)

VARIABLES
    connections,        \* [u][v]: how many times v is in u.connections
    pendingConnections, \* [u][v]: how many times v is in u.pendingConnections
    notices,            \* the notifications inserted
    req,                \* the local state of each request
    background,         \* notifications started and not yet inserted
    \* History, read by the properties only:
    asked,              \* [u]: whom u has asked to connect
    overlapped,         \* a request was sent with another still at work
    aborted             \* a request or a notification was lost

docs == <<connections, pendingConnections>>
history == <<asked, overlapped, aborted>>
vars == <<docs, notices, req, background, history>>

Idle == [pc |-> "idle"]
Finished == [pc |-> "done"]
Done(r) == [req EXCEPT ![r] = Finished]
Goto(r, label) == [req EXCEPT ![r].pc = label]
Active == {r \in Request : req[r].pc \notin {"idle", "done"}}

Count0 == [u \in User |-> [v \in User |-> 0]]
Plus(f, u, v) == [f EXCEPT ![u][v] = @ + 1]
Notice(type, r) == [type |-> type, from |-> req[r].me, to |-> req[r].target, id |-> r]

Init ==
    /\ connections = Count0
    /\ pendingConnections = Count0
    /\ notices = {}
    /\ req = [r \in Request |-> Idle]
    /\ background = {}
    /\ asked = [u \in User |-> {}]
    /\ overlapped = FALSE
    /\ aborted = FALSE

\* Nothing stops a user from asking itself, or from asking again.
Send(r) ==
    /\ req[r].pc = "idle"
    /\ \E me, target \in User :
          /\ req' = [req EXCEPT ![r] = [pc |-> "find", me |-> me, target |-> target]]
          /\ asked' = [asked EXCEPT ![me] = @ \cup {target}]
    /\ overlapped' = (overlapped \/ Active # {})
    /\ UNCHANGED <<docs, notices, background, aborted>>

\* Mutant: the look-up reads the document of the one who asks.
FindWrongDocument(r) ==
    LET q == req[r]
    IN  /\ q.pc = "find"
        /\ req' = Goto(r, IF pendingConnections[q.me][q.target] > 0
                          THEN "connectTarget" ELSE "addPending")
        /\ UNCHANGED <<docs, notices, background, history>>

\* findOne {_id: target, pendingConnections: me}
Find(r) ==
    LET q == req[r]
    IN  /\ q.pc = "find"
        /\ req' = Goto(r, IF pendingConnections[q.target][q.me] > 0
                          THEN "connectTarget" ELSE "addPending")
        /\ UNCHANGED <<docs, notices, background, history>>

\* The target's document: $push connections, $pull every pending entry.
ConnectTarget(r) ==
    LET q == req[r]
    IN  /\ q.pc = "connectTarget"
        /\ connections' = Plus(connections, q.target, q.me)
        /\ pendingConnections' = [pendingConnections EXCEPT ![q.target][q.me] = 0]
        /\ req' = Goto(r, "connectMe")
        /\ UNCHANGED <<notices, background, history>>

\* Mutant: the second document is not written.
ConnectMeForgotten(r) ==
    /\ req[r].pc = "connectMe"
    /\ req' = Done(r)
    /\ background' = background \cup {Notice("CONNECTION", r)}
    /\ UNCHANGED <<docs, notices, history>>

\* The asker's document: $push connections; its own pending entry stays.
ConnectMe(r) ==
    LET q == req[r]
    IN  /\ q.pc = "connectMe"
        /\ connections' = Plus(connections, q.me, q.target)
        /\ req' = Done(r)
        /\ background' = background \cup {Notice("CONNECTION", r)}
        /\ UNCHANGED <<pendingConnections, notices, history>>

\* Mutant: the asker is entered with the target instead.
AddPendingToTarget(r) ==
    LET q == req[r]
    IN  /\ q.pc = "addPending"
        /\ pendingConnections' = Plus(pendingConnections, q.target, q.me)
        /\ req' = Done(r)
        /\ background' = background \cup {Notice("PENDING_CONNECTION", r)}
        /\ UNCHANGED <<connections, notices, history>>

\* The asker's document: $push pendingConnections, duplicates included.
AddPending(r) ==
    LET q == req[r]
    IN  /\ q.pc = "addPending"
        /\ pendingConnections' = Plus(pendingConnections, q.me, q.target)
        /\ req' = Done(r)
        /\ background' = background \cup {Notice("PENDING_CONNECTION", r)}
        /\ UNCHANGED <<connections, notices, history>>

\* Mutant: every notification announces a connection.
NotifyConnected(n) ==
    /\ n \in background
    /\ background' = background \ {n}
    /\ notices' = notices \cup {[n EXCEPT !.type = "CONNECTION"]}
    /\ UNCHANGED <<docs, req, history>>

\* The insert of NotificationsService.create.
Notify(n) ==
    /\ n \in background
    /\ background' = background \ {n}
    /\ notices' = notices \cup {n}
    /\ UNCHANGED <<docs, req, history>>

\* A call throws, or the process restarts (several at once).
Abort(r) ==
    /\ r \in Active
    /\ req' = Done(r)
    /\ aborted' = TRUE
    /\ UNCHANGED <<docs, notices, background, asked, overlapped>>

LoseNotice(n) ==
    /\ n \in background
    /\ background' = background \ {n}
    /\ aborted' = TRUE
    /\ UNCHANGED <<docs, notices, req, asked, overlapped>>

Next ==
    \/ \E r \in Request :
          \/ Send(r) \/ Find(r) \/ ConnectTarget(r) \/ ConnectMe(r) \/ AddPending(r)
          \/ Abort(r)
    \/ \E n \in background : Notify(n) \/ LoseNotice(n)

Spec == Init /\ [][Next]_vars

-----------------------------------------------------------------------------
(* Properties.                                                             *)

\* The type invariant of the documents, the requests and the notifications.
NoticeType ==
    [type : {"CONNECTION", "PENDING_CONNECTION"}, from : User, to : User, id : Request]

TypeOK ==
    /\ connections \in [User -> [User -> Nat]]
    /\ pendingConnections \in [User -> [User -> Nat]]
    /\ notices \subseteq NoticeType
    /\ req \in [Request -> {Idle, Finished} \cup
                   [pc : {"find", "connectTarget", "connectMe", "addPending"},
                    me : User, target : User]]
    /\ background \subseteq NoticeType
    /\ asked \in [User -> SUBSET User]
    /\ overlapped \in BOOLEAN
    /\ aborted \in BOOLEAN

Quiescent == Active = {} /\ background = {}

\* Nobody is connected with a user who did not ask for it, and nobody is left
\* connected on the word of one side, under every interleaving and failure.
ConnectedOnlyIfBothAsked ==
    \A u, v \in User : connections[u][v] > 0 => v \in asked[u] /\ u \in asked[v]

\* However many requests of the two users run at once, the two documents hold
\* each other the same number of times once all is done.
ConnectionsSymmetric ==
    Quiescent /\ ~aborted =>
        \A u, v \in User : connections[u][v] = connections[v][u]

\* One request at a time, two different users who have both asked are
\* connected, and are not both waiting for each other.
MutualRequestConnects ==
    Quiescent /\ ~aborted /\ ~overlapped =>
        \A u, v \in User :
            u # v /\ v \in asked[u] /\ u \in asked[v] =>
                /\ connections[u][v] > 0
                /\ pendingConnections[u][v] = 0 \/ pendingConnections[v][u] = 0

\* A connection is announced only when both documents hold it, and a failure
\* can lose an announcement but never invent one.
AnnouncedIsConnected ==
    \A n \in notices : n.type = "CONNECTION" =>
        connections[n.from][n.to] > 0 /\ connections[n.to][n.from] > 0
=============================================================================
