-------------------------------- MODULE Likes --------------------------------
(***************************************************************************)
(* Likes, passes, rewinds and the match chat: UsersController.likeUsers,   *)
(* unLikeUser and rewind, and ChatsService.create.                         *)
(*                                                                         *)
(* A like lives in two user documents (likedByMe of the liker,             *)
(* likedBySomeone of the liked) and a match in a third (a chat), and no    *)
(* transaction spans them.  Every awaited database call is a step of the   *)
(* request; calls that are started and never awaited (both updates of      *)
(* unLikeUser, the like notification) wait in `background` and land in any *)
(* order, after the response and among later requests.                     *)
(*                                                                         *)
(* consumeSwipeForLike is module Swipes: here its verdict is arbitrary.    *)
(* findOneAndUpdate also clears isFirstTime; module Account models that.   *)
(***************************************************************************)
EXTENDS Integers, FiniteSets, SequencesExt

CONSTANTS
    User,
    Request,    \* bound: requests clients send in all, each used once
    Kinds       \* the routes the clients call

ASSUME RequestAssumption == IsFiniteSet(Request)
ASSUME KindsAssumption == Kinds \subseteq {"like", "unlike", "rewind", "chat"}

VARIABLES
    likedByMe,          \* [u][v]: how many times v is in u.likedByMe
    likedBySomeone,     \* [u][v]: how many times v is in u.likedBySomeone
    unLikedByMe,        \* user.unLikedByMe, an ordered array
    version,            \* user.__v, which mongoose bumps on save() only
    chats,              \* [{u, v}]: chats with exactly these users
    notices,            \* [u][v]: LIKE notifications from u to v
    req,                \* the local state of each request
    background,         \* calls started and not awaited
    \* History, read by the properties only:
    likes,              \* [u][v]: likes of v by u recorded in u's document
    standing,           \* [u][v]: passes of v recorded in u's document, less those
                        \* that a rewind has told u are undone
    passed,             \* an unlike was received
    overlapped,         \* a request was sent with another still at work
    aborted             \* a request or a background call did not finish

docs == <<likedByMe, likedBySomeone, unLikedByMe, version>>
history == <<likes, standing, passed, overlapped, aborted>>
vars == <<docs, chats, notices, req, background, history>>

Pair == {{u, v} : u, v \in User}

\* A slot before its request, and after it: it is not used again.
Idle == [pc |-> "idle"]
Finished == [pc |-> "done"]

Done(r) == [req EXCEPT ![r] = Finished]
Goto(r, label) == [req EXCEPT ![r].pc = label]

Active == {r \in Request : req[r].pc \notin {"idle", "done"}}
Background(op, r) == [op |-> op, from |-> req[r].me, to |-> req[r].target, id |-> r]
PendingUnlikes == {b \in background : b.op # "notify"}

Count0 == [u \in User |-> [v \in User |-> 0]]
Plus(f, u, v) == [f EXCEPT ![u][v] = @ + 1]
Minus(f, u, v) == [f EXCEPT ![u][v] = @ - 1]
Without(s, v) == FoldLeft(LAMBDA rest, w : IF w = v THEN rest ELSE Append(rest, w), <<>>, s)

Init ==
    /\ likedByMe = Count0
    /\ likedBySomeone = Count0
    /\ unLikedByMe = [u \in User |-> <<>>]
    /\ version = [u \in User |-> 0]
    /\ chats = [p \in Pair |-> 0]
    /\ notices = Count0
    /\ req = [r \in Request |-> Idle]
    /\ background = {}
    /\ likes = Count0
    /\ standing = Count0
    /\ passed = FALSE
    /\ overlapped = FALSE
    /\ aborted = FALSE

-----------------------------------------------------------------------------
(* A request arrives.                                                      *)

FirstStep(kind) ==
    CASE kind = "like"   -> "gate"
      [] kind = "unlike" -> "unlike"
      [] kind = "rewind" -> "rewindRead"
      [] kind = "chat"   -> "chatFind"

\* A rewind names nobody; a chat is opened with somebody else.
Send(r) ==
    /\ req[r].pc = "idle"
    /\ \E kind \in Kinds, me, target \in User :
          /\ kind = "rewind" => target = me
          /\ kind = "chat" => target # me
          /\ req' = [req EXCEPT ![r] =
                    [pc |-> FirstStep(kind), kind |-> kind, me |-> me,
                     target |-> target, matched |-> FALSE,
                     passes |-> <<>>, version |-> 0]]
    /\ overlapped' = (overlapped \/ Active # {} \/ PendingUnlikes # {})
    /\ UNCHANGED <<docs, chats, notices, background, likes, standing, passed, aborted>>

-----------------------------------------------------------------------------
(* POST /users/likeUser                                                    *)

\* The swipe is refused, or the user likes itself (after paying the swipe).
LikeRefused(r) ==
    /\ req[r].pc = "gate"
    /\ req' = Done(r)
    /\ UNCHANGED <<docs, chats, notices, background, history>>

LikeAccepted(r) ==
    /\ req[r].pc = "gate"
    /\ req[r].me # req[r].target
    /\ req' = Goto(r, "check")
    /\ UNCHANGED <<docs, chats, notices, background, history>>

\* Mutant: the check looks at the liker's own likes.
CheckWrongArray(r) ==
    LET q == req[r]
    IN  /\ q.pc = "check"
        /\ req' = [req EXCEPT ![r].pc = "likeMe",
                              ![r].matched = likedByMe[q.me][q.target] > 0]
        /\ UNCHANGED <<docs, chats, notices, background, history>>

\* findOne {_id: me, likedBySomeone: target}
Check(r) ==
    LET q == req[r]
    IN  /\ q.pc = "check"
        /\ req' = [req EXCEPT ![r].pc = "likeMe",
                              ![r].matched = likedBySomeone[q.me][q.target] > 0]
        /\ UNCHANGED <<docs, chats, notices, background, history>>

\* The liker's document: $push likedByMe, $pull unLikedByMe.
LikeMe(r) ==
    LET q == req[r]
    IN  /\ q.pc = "likeMe"
        /\ likedByMe' = Plus(likedByMe, q.me, q.target)
        /\ unLikedByMe' = [unLikedByMe EXCEPT ![q.me] = Without(@, q.target)]
        /\ likes' = Plus(likes, q.me, q.target)
        /\ req' = Goto(r, "likeTarget")
        /\ UNCHANGED <<likedBySomeone, version, chats, notices, background,
                       standing, passed, overlapped, aborted>>

\* The liked user's document: $push likedBySomeone.  On a match the chat comes
\* next; otherwise the notification is started and the response is sent.
LikeTarget(r) ==
    LET q == req[r]
    IN  /\ q.pc = "likeTarget"
        /\ likedBySomeone' = Plus(likedBySomeone, q.target, q.me)
        /\ \/ /\ q.matched
              /\ req' = Goto(r, "chatFind")
              /\ UNCHANGED background
           \/ /\ ~q.matched
              /\ req' = Done(r)
              /\ background' = background \cup {Background("notify", r)}
        /\ UNCHANGED <<likedByMe, unLikedByMe, version, chats, notices, history>>

-----------------------------------------------------------------------------
(* ChatsService.create, reached from a match and from POST /chats.         *)

\* Mutant: a like that matched is not notified.
ReplySilent(r) ==
    /\ req' = Done(r)
    /\ UNCHANGED background

\* The request ends: a like starts its notification without awaiting it.
Reply(r) ==
    /\ req' = Done(r)
    /\ background' = background \cup
          {Background("notify", r) : k \in {req[r].kind} \cap {"like"}}

\* findOne {users: {$all, $size}} finds one: 'Chat is already created'.
ChatExists(r) ==
    LET q == req[r]
    IN  /\ q.pc = "chatFind"
        /\ chats[{q.me, q.target}] > 0
        /\ Reply(r)
        /\ UNCHANGED <<docs, chats, notices, history>>

\* Mutant: the existing chat is not looked for.
ChatMissingUnchecked(r) ==
    LET q == req[r]
    IN  /\ q.pc = "chatFind"
        /\ req' = Goto(r, "chatCreate")
        /\ UNCHANGED <<docs, chats, notices, background, history>>

ChatMissing(r) ==
    LET q == req[r]
    IN  /\ q.pc = "chatFind"
        /\ chats[{q.me, q.target}] = 0
        /\ req' = Goto(r, "chatCreate")
        /\ UNCHANGED <<docs, chats, notices, background, history>>

ChatCreate(r) ==
    LET q == req[r]
    IN  /\ q.pc = "chatCreate"
        /\ chats' = [chats EXCEPT ![{q.me, q.target}] = @ + 1]
        /\ Reply(r)
        /\ UNCHANGED <<docs, notices, history>>

-----------------------------------------------------------------------------
(* POST /users/unLikeUser: both updates are started, none is awaited.      *)

Unlike(r) ==
    /\ req[r].pc = "unlike"
    /\ req' = Done(r)
    /\ background' = background \cup {Background(op, r) : op \in {"unlikeMe", "unlikeTarget"}}
    /\ passed' = TRUE
    /\ UNCHANGED <<docs, chats, notices, likes, standing, overlapped, aborted>>

\* $push unLikedByMe, $pull likedByMe in the document of the one who passes.
UnlikeMe(b) ==
    /\ b \in background /\ b.op = "unlikeMe"
    /\ unLikedByMe' = [unLikedByMe EXCEPT ![b.from] = Append(@, b.to)]
    /\ likedByMe' = [likedByMe EXCEPT ![b.from][b.to] = 0]
    /\ standing' = Plus(standing, b.from, b.to)
    /\ background' = background \ {b}
    /\ UNCHANGED <<likedBySomeone, version, chats, notices, req,
                   likes, passed, overlapped, aborted>>

\* Mutant: the target's document keeps the like.
UnlikeTargetForgotten(b) ==
    /\ b \in background /\ b.op = "unlikeTarget"
    /\ background' = background \ {b}
    /\ UNCHANGED <<docs, chats, notices, req, history>>

\* $pull likedBySomeone in the document of the one who is passed.
UnlikeTarget(b) ==
    /\ b \in background /\ b.op = "unlikeTarget"
    /\ likedBySomeone' = [likedBySomeone EXCEPT ![b.to][b.from] = 0]
    /\ background' = background \ {b}
    /\ UNCHANGED <<likedByMe, unLikedByMe, version, chats, notices, req, history>>

\* The insert of NotificationsService.create.
Notify(b) ==
    /\ b \in background /\ b.op = "notify"
    /\ notices' = Plus(notices, b.from, b.to)
    /\ background' = background \ {b}
    /\ UNCHANGED <<docs, chats, req, history>>

-----------------------------------------------------------------------------
(* GET /users/rewind                                                       *)

\* findById; with no passed profile the request ends.
RewindRead(r) ==
    LET me == req[r].me
    IN  /\ req[r].pc = "rewindRead"
        /\ \/ /\ unLikedByMe[me] = <<>>
              /\ req' = Done(r)
           \/ /\ unLikedByMe[me] # <<>>
              /\ req' = [req EXCEPT ![r].pc = "rewindSave",
                                    ![r].passes = unLikedByMe[me],
                                    ![r].version = version[me]]
        /\ UNCHANGED <<docs, chats, notices, background, history>>

\* Mutant: the array is written whatever version the document has by now.
RewindSaveAnyway(r) ==
    LET q == req[r]
    IN  /\ q.pc = "rewindSave"
        /\ unLikedByMe' = [unLikedByMe EXCEPT ![q.me] = Front(q.passes)]
        /\ version' = [version EXCEPT ![q.me] = @ + 1]
        /\ standing' = Minus(standing, q.me, Last(q.passes))
        /\ req' = Done(r)
        /\ UNCHANGED <<likedByMe, likedBySomeone, chats, notices, background,
                       likes, passed, overlapped, aborted>>

\* doc.save() of a replaced array: $set of the whole array where __v is still
\* the version read.  $push and $pull of other requests do not bump __v.  The
\* answer names the last of the passes that were read as the one undone.
RewindSave(r) ==
    LET q == req[r]
    IN  /\ q.pc = "rewindSave"
        /\ version[q.me] = q.version
        /\ unLikedByMe' = [unLikedByMe EXCEPT ![q.me] = Front(q.passes)]
        /\ version' = [version EXCEPT ![q.me] = @ + 1]
        /\ standing' = Minus(standing, q.me, Last(q.passes))
        /\ req' = Done(r)
        /\ UNCHANGED <<likedByMe, likedBySomeone, chats, notices, background,
                       likes, passed, overlapped, aborted>>

\* VersionError: the save throws and changes nothing.
RewindConflict(r) ==
    LET q == req[r]
    IN  /\ q.pc = "rewindSave"
        /\ version[q.me] # q.version
        /\ req' = Done(r)
        /\ UNCHANGED <<docs, chats, notices, background, history>>

-----------------------------------------------------------------------------
(* Failures: a call throws, or the process restarts (several at once).     *)

Abort(r) ==
    /\ r \in Active
    /\ req' = Done(r)
    /\ aborted' = TRUE
    /\ UNCHANGED <<docs, chats, notices, background, likes, standing, passed, overlapped>>

LoseBackground(b) ==
    /\ b \in background
    /\ background' = background \ {b}
    /\ aborted' = TRUE
    /\ UNCHANGED <<docs, chats, notices, req, likes, standing, passed, overlapped>>

LikeStep(r) ==
    \/ LikeRefused(r) \/ LikeAccepted(r) \/ Check(r) \/ LikeMe(r) \/ LikeTarget(r)

ChatStep(r) == ChatExists(r) \/ ChatMissing(r) \/ ChatCreate(r)

RewindStep(r) == RewindRead(r) \/ RewindSave(r) \/ RewindConflict(r)

Land(b) == UnlikeMe(b) \/ UnlikeTarget(b) \/ Notify(b)

Next ==
    \/ \E r \in Request :
          \/ Send(r) \/ LikeStep(r) \/ ChatStep(r) \/ Unlike(r) \/ RewindStep(r)
          \/ Abort(r)
    \/ \E b \in background : Land(b) \/ LoseBackground(b)

Spec == Init /\ [][Next]_vars

-----------------------------------------------------------------------------
(* getAllLikedUsers and getAllUsersWhomLikedMe, which write nothing: the   *)
(* users behind an array of the own document, each once.                   *)

LikedUsers(me) == {u \in User : likedByMe[me][u] > 0}
UsersWhomLikedMe(me) == {u \in User : likedBySomeone[me][u] > 0}

-----------------------------------------------------------------------------
(* Properties.                                                             *)

Quiescent == Active = {} /\ background = {}

\* A like opens a chat only when each of the two has at some time liked the
\* other, however likes, passes and failures interleave: the match branch of
\* likeUsers rests on an array that another request writes.
MatchIsMutual ==
    \A r \in Active :
        req[r].kind = "like" /\ req[r].pc \in {"chatFind", "chatCreate"} =>
            /\ likes[req[r].me][req[r].target] > 0
            /\ likes[req[r].target][req[r].me] > 0

\* Once nothing is at work and nothing failed, the two documents of a like
\* tell the same story, whatever the order of their updates; with passes in
\* play this needs requests that do not overlap, because the late $pull of a
\* pass can erase one half of a newer like.
LikesAgree ==
    Quiescent /\ ~aborted /\ (~overlapped \/ ~passed) =>
        \A u, v \in User : likedByMe[u][v] = likedBySomeone[v][u]

\* One request at a time, a user who finds another both among the liked users and
\* among those who liked has exactly one chat with that user, however often they
\* liked, passed and liked again before, and no pair of users ever has two, even
\* when a request fails between looking for the chat and creating it.
OneChatPerMatch ==
    ~overlapped =>
        /\ \A p \in Pair : chats[p] <= 1
        /\ Quiescent /\ ~aborted =>
               \A u \in User : \A v \in LikedUsers(u) \cap UsersWhomLikedMe(u) :
                   chats[{u, v}] = 1

\* Every recorded like is notified exactly once when nothing failed.
EveryLikeNotified ==
    Quiescent /\ ~aborted => notices = likes

\* However rewinds, passes and likes of a user interleave, no pass is undone
\* twice, and none that a rewind has undone comes back: of each profile the array
\* holds at most the passes that were recorded and that no rewind has answered
\* with.  A rewind writes back a copy of the whole array, and it is the version
\* check of save() alone that keeps a second rewind from undoing the same pass
\* again, or from restoring what the first has undone.  (A pass that lands
\* between the read and the save of a rewind is lost, and one that a like has
\* pulled in between is back: the bound allows both.)
TimesPassed(s, v) == Cardinality({i \in DOMAIN s : s[i] = v})

NoPassUndoneTwice ==
    \A u, v \in User : TimesPassed(unLikedByMe[u], v) <= standing[u][v]
=============================================================================
