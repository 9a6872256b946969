----------------------------- MODULE LikesProofs -----------------------------
(***************************************************************************)
(* Proofs about likes, matches, their notifications, chats and passes, for *)
(* every set of users and any number of requests, and about the feed,      *)
(* which leaves out whom the lists of Likes name: for any profiles,        *)
(* filters, page size and number of users.                                 *)
(*                                                                         *)
(* Only the proof about rewinds needs the arrays of passed profiles:       *)
(* CoreType leaves out unLikedByMe and the copies of it that requests      *)
(* hold, whose type and counts rest on what $pull leaves of an array.      *)
(***************************************************************************)
EXTENDS Likes, Feed, Integers, FiniteSetTheorems, SequenceTheorems,
        WellFoundedInduction, TLAPS

Fields == {"pc", "kind", "me", "target", "matched", "passes", "version"}

\* A request that has been sent and not answered.
Sent(r) == req[r].pc \notin {"idle", "done"}

CoreRequest(r) ==
    \/ req[r] = Idle
    \/ req[r] = Finished
    \/ /\ Sent(r)
       /\ DOMAIN req[r] = Fields
       /\ req[r].me \in User
       /\ req[r].target \in User
       /\ req[r].matched \in BOOLEAN

CoreType ==
    /\ likes \in [User -> [User -> Nat]]
    /\ likedBySomeone \in [User -> [User -> Nat]]
    /\ DOMAIN req = Request
    /\ \A r \in Request : CoreRequest(r)
    /\ \A b \in background : b.from \in User /\ b.to \in User

\* The type of the arrays of likes and of the requests, whatever they do.
THEOREM CoreTypeCorrect == Spec => []CoreType
<1> USE DEF CoreType
<1>1. Init => CoreType
  BY DEF Init, Count0, CoreRequest
<1>2. CoreType /\ [Next]_vars => CoreType'
  <2> SUFFICES ASSUME CoreType, [Next]_vars PROVE CoreType'
    OBVIOUS
  <2> USE DEF docs, history
  <2>a. ASSUME NEW r \in Request, Sent(r)
        PROVE  /\ DOMAIN req[r] = Fields /\ req[r].me \in User /\ req[r].target \in User
               /\ req[r].matched \in BOOLEAN
    BY <2>a DEF CoreRequest, Sent, Idle, Finished
  <2>b. ASSUME NEW r \in Request, DOMAIN req' = Request, CoreRequest(r)',
               \A s \in Request : s # r => req'[s] = req[s]
        PROVE  \A s \in Request : CoreRequest(s)'
    BY <2>b DEF CoreRequest, Sent
  <2>c. ASSUME NEW r \in Request, req' = Done(r)
        PROVE  DOMAIN req' = Request /\ \A s \in Request : CoreRequest(s)'
    BY <2>c, <2>b DEF Done, CoreRequest
  <2>d. ASSUME NEW r \in Request, Sent(r), NEW label, label \notin {"idle", "done"},
               req' = Goto(r, label)
        PROVE  DOMAIN req' = Request /\ \A s \in Request : CoreRequest(s)'
    BY <2>a, <2>b, <2>d DEF Goto, CoreRequest, Sent, Fields
  <2>1. ASSUME NEW r \in Request, Send(r) PROVE CoreType'
    <3>1. PICK kind \in Kinds, me \in User, target \in User :
             req' = [req EXCEPT ![r] =
                       [pc |-> FirstStep(kind), kind |-> kind, me |-> me,
                        target |-> target, matched |-> FALSE,
                        passes |-> <<>>, version |-> 0]]
      BY <2>1 DEF Send
    <3>2. FirstStep(kind) \notin {"idle", "done"}
      BY KindsAssumption DEF FirstStep
    <3> DEFINE q == [pc |-> FirstStep(kind), kind |-> kind, me |-> me,
                     target |-> target, matched |-> FALSE,
                     passes |-> <<>>, version |-> 0]
    <3>3. /\ DOMAIN q = Fields /\ q.me \in User /\ q.target \in User
          /\ q.matched \in BOOLEAN /\ q.pc = FirstStep(kind)
      BY DEF Fields
    <3>4. req' = [req EXCEPT ![r] = q]
      BY <3>1
    <3> HIDE DEF q
    <3>5. CoreRequest(r)' /\ DOMAIN req' = Request
      BY <3>2, <3>3, <3>4 DEF CoreRequest, Sent
    <3> QED
      BY <3>4, <3>5, <2>b, <2>1 DEF Send
  <2>2. ASSUME NEW r \in Request, LikeRefused(r) PROVE CoreType'
    BY <2>2, <2>c DEF LikeRefused
  <2>3. ASSUME NEW r \in Request, LikeAccepted(r) PROVE CoreType'
    BY <2>3, <2>d DEF LikeAccepted, Sent
  <2>4. ASSUME NEW r \in Request, Check(r) PROVE CoreType'
    <3>1. Sent(r)
      BY <2>4 DEF Check, Sent
    <3>2. CoreRequest(r)' /\ DOMAIN req' = Request
      BY <3>1, <2>4, <2>a DEF Check, CoreRequest, Sent, Fields
    <3> QED
      BY <3>2, <2>b, <2>4 DEF Check
  <2>5. ASSUME NEW r \in Request, LikeMe(r) PROVE CoreType'
    <3>1. Sent(r)
      BY <2>5 DEF LikeMe, Sent
    <3>2. DOMAIN req' = Request /\ \A s \in Request : CoreRequest(s)'
      BY <3>1, <2>5, <2>d DEF LikeMe
    <3>3. PICK me \in User, target \in User : me = req[r].me /\ target = req[r].target
      BY <3>1, <2>a
    <3>4. likes' = [likes EXCEPT ![me][target] = @ + 1]
      BY <2>5, <3>3 DEF LikeMe, Plus
    <3>5. likes' \in [User -> [User -> Nat]]
      BY <3>4
    <3>6. likedBySomeone' = likedBySomeone /\ background' = background
      BY <2>5 DEF LikeMe
    <3> QED
      BY <3>2, <3>5, <3>6
  <2>6. ASSUME NEW r \in Request, LikeTarget(r) PROVE CoreType'
    <3>1. Sent(r)
      BY <2>6 DEF LikeTarget, Sent
    <3>2. DOMAIN req' = Request /\ \A s \in Request : CoreRequest(s)'
      BY <3>1, <2>6, <2>c, <2>d DEF LikeTarget
    <3> QED
      BY <3>1, <3>2, <2>6, <2>a DEF LikeTarget, Plus, Background
  <2>7. ASSUME NEW r \in Request, ChatStep(r) PROVE CoreType'
    <3>1. Sent(r)
      BY <2>7 DEF ChatStep, ChatExists, ChatMissing, ChatCreate, Sent
    <3> QED
      BY <3>1, <2>7, <2>a, <2>c, <2>d
      DEF ChatStep, ChatExists, ChatMissing, ChatCreate, Reply, Background
  <2>8. ASSUME NEW r \in Request, Unlike(r) PROVE CoreType'
    <3>1. Sent(r)
      BY <2>8 DEF Unlike, Sent
    <3> QED
      BY <3>1, <2>8, <2>a, <2>c DEF Unlike, Background
  <2>9. ASSUME NEW r \in Request, RewindStep(r) PROVE CoreType'
    <3>1. Sent(r)
      BY <2>9 DEF RewindStep, RewindRead, RewindSave, RewindConflict, Sent
    <3>2. CASE req' = Done(r)
      BY <3>2, <2>9, <2>c DEF RewindStep, RewindRead, RewindSave, RewindConflict
    <3>3. CASE RewindRead(r) /\ req' # Done(r)
      <4> DEFINE q == [req[r] EXCEPT !.pc = "rewindSave",
                                     !.passes = unLikedByMe[req[r].me],
                                     !.version = version[req[r].me]]
      <4>0. req' = [req EXCEPT ![r] = q]
        BY <3>3 DEF RewindRead
      <4>2. /\ DOMAIN q = Fields /\ q.me \in User /\ q.target \in User
            /\ q.matched \in BOOLEAN /\ q.pc = "rewindSave"
        BY <3>1, <2>a DEF Fields
      <4> HIDE DEF q
      <4>1. CoreRequest(r)' /\ DOMAIN req' = Request
        BY <4>0, <4>2 DEF CoreRequest, Sent
      <4> QED
        BY <4>1, <3>3, <2>b DEF RewindRead
    <3> QED
      BY <3>2, <3>3, <2>9 DEF RewindStep, RewindSave, RewindConflict
  <2>10. ASSUME NEW r \in Request, Abort(r) PROVE CoreType'
    BY <2>10, <2>c DEF Abort
  <2>11. ASSUME NEW b \in background, Land(b) \/ LoseBackground(b) PROVE CoreType'
    <3>1. background' \subseteq background /\ req' = req
      BY <2>11 DEF Land, UnlikeMe, UnlikeTarget, Notify, LoseBackground
    <3>2. likes' = likes
      BY <2>11 DEF Land, UnlikeMe, UnlikeTarget, Notify, LoseBackground
    <3>3. likedBySomeone' \in [User -> [User -> Nat]]
      <4>1. CASE UnlikeTarget(b)
        BY <4>1 DEF UnlikeTarget
      <4> QED
        BY <2>11, <4>1 DEF Land, UnlikeMe, Notify, LoseBackground
    <3> QED
      BY <3>1, <3>2, <3>3 DEF CoreRequest, Sent
  <2>12. CASE UNCHANGED vars
    BY <2>12 DEF vars, CoreRequest, Sent
  <2> QED
    BY <2>1, <2>2, <2>3, <2>4, <2>5, <2>6, <2>7, <2>8, <2>9, <2>10, <2>11, <2>12
    DEF Next, LikeStep
<1> QED
  BY <1>1, <1>2, PTL DEF Spec

-----------------------------------------------------------------------------
(* Matches.                                                                *)

\* What a like has established by the time it stands at a step.
LikeProgress(q) ==
    /\ q.pc \in {"gate", "check", "likeMe", "likeTarget"} => q.kind = "like"
    /\ q.kind = "like" =>
          /\ q.pc \in {"likeTarget", "chatFind", "chatCreate"} =>
                 likes[q.me][q.target] > 0
          /\ q.pc \in {"likeMe", "likeTarget"} /\ q.matched =>
                 likes[q.target][q.me] > 0
          /\ q.pc \in {"chatFind", "chatCreate"} => likes[q.target][q.me] > 0

\* An entry of likedBySomeone stands for a like once recorded on the other
\* side: entries are pushed after the liker's own document was written, and
\* pulled in any order.
MatchInv ==
    /\ \A u, v \in User : likedBySomeone[v][u] > 0 => likes[u][v] > 0
    /\ \A r \in Request : Sent(r) => LikeProgress(req[r])

\* A like opens a chat only after both users have recorded a like of the
\* other, for any number of users and requests, with passes, rewinds, direct
\* chats and failures anywhere in between.
THEOREM MatchMutual == Spec => []MatchIsMutual
<1>1. Init => MatchInv
  BY DEF Init, MatchInv, Count0, Sent, Idle
<1>2. CoreType /\ CoreType' /\ MatchInv /\ [Next]_vars => MatchInv'
  <2> SUFFICES ASSUME CoreType, CoreType', MatchInv, [Next]_vars PROVE MatchInv'
    OBVIOUS
  <2> USE DEF docs, history
  <2>a. ASSUME NEW r \in Request, Sent(r)
        PROVE  /\ DOMAIN req[r] = Fields /\ req[r].me \in User /\ req[r].target \in User
               /\ req[r].matched \in BOOLEAN
               /\ LikeProgress(req[r])
    BY <2>a DEF CoreType, CoreRequest, Sent, Idle, Finished, MatchInv
  <2>d. DOMAIN req = Request
    BY DEF CoreType
  \* A step that writes no like and moves one request only.
  <2>b. ASSUME NEW r \in Request, likes' = likes, likedBySomeone' = likedBySomeone,
               \A s \in Request : s # r => req'[s] = req[s],
               Sent(r)' => LikeProgress(req[r])'
        PROVE  MatchInv'
    <3>1. \A s \in Request : Sent(s)' => LikeProgress(req[s])'
      BY <2>b DEF MatchInv, Sent, LikeProgress
    <3> QED
      BY <3>1, <2>b DEF MatchInv
  <2>c. ASSUME NEW r \in Request, likes' = likes, likedBySomeone' = likedBySomeone,
               req' = Done(r)
        PROVE  MatchInv'
    BY <2>b, <2>c, <2>d DEF Done, Finished, Sent
  <2>1. ASSUME NEW r \in Request, Send(r) PROVE MatchInv'
    <3>1. PICK kind \in Kinds, me \in User, target \in User :
             req' = [req EXCEPT ![r] =
                       [pc |-> FirstStep(kind), kind |-> kind, me |-> me,
                        target |-> target, matched |-> FALSE,
                        passes |-> <<>>, version |-> 0]]
      BY <2>1 DEF Send
    <3>2. /\ req'[r].pc = FirstStep(kind) /\ req'[r].kind = kind
          /\ req'[r].matched = FALSE
          /\ \A s \in Request : s # r => req'[s] = req[s]
      BY <3>1, <2>d
    <3>3. LikeProgress(req[r])'
      BY <3>2, KindsAssumption DEF FirstStep, LikeProgress
    <3> QED
      BY <3>2, <3>3, <2>b, <2>1 DEF Send
  <2>2. ASSUME NEW r \in Request, LikeRefused(r) PROVE MatchInv'
    BY <2>2, <2>c DEF LikeRefused
  <2>3. ASSUME NEW r \in Request, LikeAccepted(r) PROVE MatchInv'
    <3>1. Sent(r)
      BY <2>3 DEF LikeAccepted, Sent
    <3>2. LikeProgress(req[r])'
      BY <3>1, <2>3, <2>a, <2>d DEF LikeAccepted, Goto, LikeProgress, Fields
    <3> QED
      BY <3>2, <2>3, <2>b, <2>d DEF LikeAccepted, Goto
  <2>4. ASSUME NEW r \in Request, Check(r) PROVE MatchInv'
    <3>1. Sent(r)
      BY <2>4 DEF Check, Sent
    <3>2. /\ req'[r].pc = "likeMe" /\ req'[r].me = req[r].me
          /\ req'[r].target = req[r].target
          /\ req'[r].matched = (likedBySomeone[req[r].me][req[r].target] > 0)
          /\ req'[r].kind = req[r].kind /\ req[r].kind = "like"
      BY <3>1, <2>4, <2>a, <2>d DEF Check, Fields, LikeProgress
    <3>3. LikeProgress(req[r])'
      BY <3>1, <3>2, <2>4, <2>a DEF Check, LikeProgress, MatchInv
    <3> QED
      BY <3>3, <2>4, <2>b, <2>d DEF Check
  <2>5. ASSUME NEW r \in Request, LikeMe(r) PROVE MatchInv'
    <3>1. Sent(r)
      BY <2>5 DEF LikeMe, Sent
    <3>2. \A u, v \in User : likes'[u][v] >= likes[u][v]
      BY <3>1, <2>5, <2>a DEF LikeMe, Plus, CoreType
    <3>3. likes'[req[r].me][req[r].target] > 0
      BY <3>1, <2>5, <2>a DEF LikeMe, Plus, CoreType
    <3>4. \A u, v \in User : likes[u][v] \in Nat /\ likes'[u][v] \in Nat
      BY DEF CoreType
    <3>5. \A s \in Request : s # r /\ Sent(s) => LikeProgress(req[s])'
      BY <3>2, <3>4, <2>5, <2>a, <2>d DEF LikeMe, Goto, LikeProgress
    <3>6. LikeProgress(req[r])'
      <4>1. /\ req'[r].pc = "likeTarget" /\ req'[r].me = req[r].me
            /\ req'[r].target = req[r].target /\ req'[r].matched = req[r].matched
            /\ req'[r].kind = req[r].kind
        BY <3>1, <2>5, <2>a, <2>d DEF LikeMe, Goto, Fields
      <4> QED
        BY <4>1, <3>1, <3>2, <3>3, <3>4, <2>5, <2>a DEF LikeMe, LikeProgress
    <3>7. \A s \in Request : Sent(s)' => LikeProgress(req[s])'
      BY <3>5, <3>6, <2>5, <2>d DEF LikeMe, Goto, Sent
    <3>8. \A u, v \in User : likedBySomeone'[v][u] > 0 => likes'[u][v] > 0
      BY <3>2, <3>4, <2>5 DEF LikeMe, MatchInv
    <3> QED
      BY <3>7, <3>8 DEF MatchInv
  <2>6. ASSUME NEW r \in Request, LikeTarget(r) PROVE MatchInv'
    <3> DEFINE q == req[r]
    <3>1. Sent(r)
      BY <2>6 DEF LikeTarget, Sent
    <3>2. likes[q.me][q.target] > 0
      BY <3>1, <2>6, <2>a DEF LikeTarget, LikeProgress
    <3>3. \A u, v \in User : likedBySomeone'[v][u] > 0 => likes'[u][v] > 0
      BY <3>1, <3>2, <2>6, <2>a DEF LikeTarget, Plus, MatchInv, CoreType
    <3>4. Sent(r)' => LikeProgress(req[r])'
      <4>1. CASE req' = Done(r)
        BY <4>1, <2>d DEF Done, Finished, Sent
      <4>2. CASE req' = Goto(r, "chatFind") /\ q.matched
        BY <4>2, <3>1, <3>2, <2>6, <2>a, <2>d DEF LikeTarget, Goto, LikeProgress, Fields
      <4> QED
        BY <4>1, <4>2, <2>6 DEF LikeTarget
    <3>5. \A s \in Request : s # r => req'[s] = req[s]
      BY <2>6, <2>d DEF LikeTarget, Goto, Done
    <3>6. \A s \in Request : Sent(s)' => LikeProgress(req[s])'
      BY <3>4, <3>5, <2>6, <2>a DEF LikeTarget, LikeProgress, Sent
    <3> QED
      BY <3>3, <3>6 DEF MatchInv
  <2>7. ASSUME NEW r \in Request, ChatStep(r) PROVE MatchInv'
    <3>1. CASE ChatMissing(r)
      <4>1. Sent(r)
        BY <3>1 DEF ChatMissing, Sent
      <4>2. LikeProgress(req[r])'
        BY <4>1, <3>1, <2>a, <2>d DEF ChatMissing, Goto, LikeProgress, Fields
      <4> QED
        BY <4>2, <3>1, <2>b, <2>d DEF ChatMissing, Goto
    <3> QED
      BY <3>1, <2>7, <2>c DEF ChatStep, ChatExists, ChatCreate, Reply
  <2>8. ASSUME NEW r \in Request, Unlike(r) PROVE MatchInv'
    BY <2>8, <2>c DEF Unlike
  <2>9. ASSUME NEW r \in Request, RewindStep(r) PROVE MatchInv'
    <3>1. CASE RewindRead(r) /\ req' # Done(r)
      <4>1. Sent(r)
        BY <3>1 DEF RewindRead, Sent
      <4>2. /\ req'[r].pc = "rewindSave" /\ req'[r].kind = req[r].kind
            /\ req'[r].me = req[r].me /\ req'[r].target = req[r].target
        BY <4>1, <3>1, <2>a, <2>d DEF RewindRead, Fields
      <4>3. LikeProgress(req[r])'
        BY <4>2 DEF LikeProgress
      <4> QED
        BY <4>3, <3>1, <2>b, <2>d DEF RewindRead
    <3> QED
      BY <3>1, <2>9, <2>c DEF RewindStep, RewindRead, RewindSave, RewindConflict
  <2>10. ASSUME NEW r \in Request, Abort(r) PROVE MatchInv'
    BY <2>10, <2>c DEF Abort
  <2>11. ASSUME NEW b \in background, Land(b) \/ LoseBackground(b) PROVE MatchInv'
    <3>1. \A u, v \in User : likedBySomeone'[v][u] > 0 => likedBySomeone[v][u] > 0
      <4>1. CASE UnlikeTarget(b)
        BY <4>1 DEF UnlikeTarget, CoreType
      <4> QED
        BY <2>11, <4>1 DEF Land, UnlikeMe, Notify, LoseBackground
    <3>2. likes' = likes /\ req' = req
      BY <2>11 DEF Land, UnlikeMe, UnlikeTarget, Notify, LoseBackground
    <3> QED
      BY <3>1, <3>2 DEF MatchInv, Sent, LikeProgress
  <2>12. CASE UNCHANGED vars
    BY <2>12 DEF vars, MatchInv, Sent, LikeProgress
  <2> QED
    BY <2>1, <2>2, <2>3, <2>4, <2>5, <2>6, <2>7, <2>8, <2>9, <2>10, <2>11, <2>12
    DEF Next, LikeStep
<1>3. MatchInv => MatchIsMutual
  BY DEF MatchInv, MatchIsMutual, Active, Sent, LikeProgress
<1> QED
  BY <1>1, <1>2, <1>3, CoreTypeCorrect, PTL DEF Spec

-----------------------------------------------------------------------------
(* What later proofs know of the requests and of the calls in background.  *)

\* The documents and chats that CoreType leaves out, but for unLikedByMe.
DocType ==
    /\ likedByMe \in [User -> [User -> Nat]]
    /\ notices \in [User -> [User -> Nat]]
    /\ chats \in [Pair -> Nat]

\* A call in background is of a request that is over, and is there once.
BackgroundInv ==
    /\ \A b \in background : /\ b.op \in {"notify", "unlikeMe", "unlikeTarget"}
                             /\ b.id \in Request /\ req[b.id] = Finished
    /\ \A b, c \in background : b.id = c.id /\ b.op = c.op => b = c

\* Only likes are between the updates of a like, and nobody likes itself.
KindInv ==
    \A r \in Request :
        /\ req[r].pc \in {"gate", "check", "likeMe", "likeTarget"} => req[r].kind = "like"
        /\ req[r].pc \in {"check", "likeMe", "likeTarget", "chatFind", "chatCreate"} =>
               req[r].me # req[r].target

WorkInv == DocType /\ BackgroundInv /\ KindInv

\* A request at work is a record of its fields.
LEMMA AtWork ==
    ASSUME CoreType, NEW r \in Request, Sent(r)
    PROVE  /\ DOMAIN req[r] = Fields /\ req[r].me \in User /\ req[r].target \in User
           /\ req[r].matched \in BOOLEAN /\ req[r] # Finished
BY DEF CoreType, CoreRequest, Sent, Idle, Finished

\* A request that moves on keeps its fields, and no other request moves.
LEMMA Moves ==
    ASSUME CoreType, NEW r \in Request, Sent(r), NEW label, req' = Goto(r, label)
    PROVE  /\ req'[r].pc = label /\ req'[r].kind = req[r].kind
           /\ req'[r].me = req[r].me /\ req'[r].target = req[r].target
           /\ req'[r].matched = req[r].matched
           /\ \A q \in Request : q # r => req'[q] = req[q]
<1>1. DOMAIN req = Request /\ DOMAIN req[r] = Fields
  BY AtWork DEF CoreType
<1> QED BY <1>1 DEF Goto, Fields

\* A request that ends leaves the others where they are.
LEMMA Ends ==
    ASSUME CoreType, NEW r \in Request, req' = Done(r)
    PROVE  req'[r] = Finished /\ \A q \in Request : q # r => req'[q] = req[q]
BY DEF CoreType, Done

\* One more entry of one array: the others stay.
LEMMA PlusTyped ==
    ASSUME NEW f \in [User -> [User -> Nat]], NEW u \in User, NEW v \in User
    PROVE  /\ Plus(f, u, v) \in [User -> [User -> Nat]]
           /\ \A a, b \in User :
                 Plus(f, u, v)[a][b] = IF a = u /\ b = v THEN f[a][b] + 1 ELSE f[a][b]
<1>1. Plus(f, u, v) = [f EXCEPT ![u] = [f[u] EXCEPT ![v] = f[u][v] + 1]]
  BY DEF Plus
<1>2. [f[u] EXCEPT ![v] = f[u][v] + 1] \in [User -> Nat]
  OBVIOUS
<1> QED BY <1>1, <1>2

\* A request that ends may leave calls behind: they are new, and its own.
LEMMA BackgroundGrows ==
    ASSUME CoreType, BackgroundInv, NEW r \in Request, Sent(r), req' = Done(r),
           NEW ops \in SUBSET {"notify", "unlikeMe", "unlikeTarget"},
           background' = background \cup {Background(op, r) : op \in ops}
    PROVE  BackgroundInv'
<1>1. \A b \in background : b.id # r /\ req'[b.id] = Finished
  BY AtWork, Ends DEF BackgroundInv
<1>2. \A op \in ops : Background(op, r).op = op /\ Background(op, r).id = r
  BY DEF Background
<1>3. req'[r] = Finished
  BY Ends
<1> QED BY <1>1, <1>2, <1>3 DEF BackgroundInv

\* Calls that land or are lost leave the rest as it was.
LEMMA BackgroundStays ==
    ASSUME BackgroundInv, background' \subseteq background,
           \A q \in Request : req[q] = Finished => req'[q] = Finished
    PROVE  BackgroundInv'
BY DEF BackgroundInv

\* Every step keeps the documents in their types, the calls in background
\* tied to finished requests, and the steps of a like to likes.
LEMMA WorkHolds == Spec => []WorkInv
<1>1. Init => WorkInv
  <2> SUFFICES ASSUME Init PROVE WorkInv
    OBVIOUS
  <2>1. DocType
    BY DEF Init, DocType, Count0
  <2>2. BackgroundInv /\ KindInv
    BY DEF Init, BackgroundInv, KindInv, Idle
  <2> QED BY <2>1, <2>2 DEF WorkInv
<1>2. CoreType /\ WorkInv /\ [Next]_vars => WorkInv'
  <2> SUFFICES ASSUME CoreType, DocType, BackgroundInv, KindInv, [Next]_vars PROVE WorkInv'
    BY DEF WorkInv
  <2> USE DEF docs, history
  \* A request at work keeps the calls in background, if it leaves none.
  <2>a. ASSUME NEW r \in Request, req[r] # Finished, background' = background,
               \A q \in Request : q # r => req'[q] = req[q]
        PROVE  BackgroundInv'
    BY <2>a, BackgroundStays
  \* The other requests keep their kinds.
  <2>b. ASSUME NEW r \in Request, \A q \in Request : q # r => req'[q] = req[q],
               /\ req'[r].pc \in {"gate", "check", "likeMe", "likeTarget"} => req'[r].kind = "like"
               /\ req'[r].pc \in {"check", "likeMe", "likeTarget", "chatFind", "chatCreate"} =>
                      req'[r].me # req'[r].target
        PROVE  KindInv'
    BY <2>b DEF KindInv
  <2>c. ASSUME NEW r \in Request, req' = Done(r) PROVE KindInv'
    <3>1. req'[r].pc = "done"
      BY <2>c, Ends DEF Finished
    <3>2. \A q \in Request : q # r => req'[q] = req[q]
      BY <2>c, Ends
    <3> QED BY <3>1, <3>2, <2>b
  <2>d. ASSUME NEW r \in Request, Sent(r), UNCHANGED <<likedByMe, notices, chats>>,
               req' = Done(r), background' = background
        PROVE  WorkInv'
    <3>1. DocType'
      BY <2>d DEF DocType
    <3>2. BackgroundInv'
      BY <2>d, <2>a, AtWork, Ends
    <3> QED BY <3>1, <3>2, <2>c, <2>d DEF WorkInv
  <2>1. ASSUME NEW r \in Request, Send(r) PROVE WorkInv'
    <3>1. PICK kind \in Kinds, me \in User, target \in User :
             /\ kind = "chat" => target # me
             /\ req' = [req EXCEPT ![r] =
                       [pc |-> FirstStep(kind), kind |-> kind, me |-> me,
                        target |-> target, matched |-> FALSE,
                        passes |-> <<>>, version |-> 0]]
      BY <2>1 DEF Send
    <3>2. /\ req'[r].pc = FirstStep(kind) /\ req'[r].kind = kind
          /\ req'[r].me = me /\ req'[r].target = target
          /\ \A q \in Request : q # r => req'[q] = req[q]
      BY <3>1 DEF CoreType
    <3>3. KindInv'
      BY <3>1, <3>2, <2>b, KindsAssumption DEF FirstStep
    <3>4. background' = background /\ DocType'
      BY <2>1 DEF Send, DocType
    <3>5. req[r] # Finished
      BY <2>1 DEF Send, Finished
    <3> QED BY <3>2, <3>3, <3>4, <3>5, <2>a DEF WorkInv
  <2>2. ASSUME NEW r \in Request, LikeRefused(r) PROVE WorkInv'
    BY <2>2, <2>d DEF LikeRefused, Sent
  <2>3. ASSUME NEW r \in Request, LikeAccepted(r) \/ ChatMissing(r) PROVE WorkInv'
    <3>1. Sent(r) /\ \E l \in {"check", "chatCreate"} : req' = Goto(r, l)
      BY <2>3 DEF LikeAccepted, ChatMissing, Sent
    <3>2. KindInv'
      BY <3>1, <2>3, <2>b, Moves DEF LikeAccepted, ChatMissing, KindInv
    <3>3. BackgroundInv'
      BY <3>1, <2>3, <2>a, Moves, AtWork DEF LikeAccepted, ChatMissing
    <3> QED BY <3>2, <3>3, <2>3 DEF LikeAccepted, ChatMissing, WorkInv, DocType
  <2>4. ASSUME NEW r \in Request, Check(r) PROVE WorkInv'
    <3>1. Sent(r) /\ \A q \in Request : q # r => req'[q] = req[q]
      BY <2>4 DEF Check, Sent, CoreType
    <3>2. /\ req'[r].pc = "likeMe" /\ req'[r].kind = req[r].kind
          /\ req'[r].me = req[r].me /\ req'[r].target = req[r].target
      BY <3>1, <2>4, AtWork DEF Check, CoreType, Fields
    <3>3. KindInv'
      BY <3>1, <3>2, <2>4, <2>b DEF Check, KindInv
    <3>4. BackgroundInv'
      BY <3>1, <2>4, <2>a, AtWork DEF Check
    <3> QED BY <3>3, <3>4, <2>4 DEF Check, WorkInv, DocType
  <2>5. ASSUME NEW r \in Request, LikeMe(r) PROVE WorkInv'
    <3>1. Sent(r) /\ req' = Goto(r, "likeTarget") /\ background' = background
      BY <2>5 DEF LikeMe, Sent
    <3>2. KindInv'
      BY <3>1, <2>5, <2>b, Moves DEF LikeMe, KindInv
    <3>3. BackgroundInv'
      BY <3>1, <2>a, Moves, AtWork
    <3>4. DocType'
      BY <3>1, <2>5, AtWork, PlusTyped DEF LikeMe, DocType
    <3> QED BY <3>2, <3>3, <3>4 DEF WorkInv
  <2>6. ASSUME NEW r \in Request, LikeTarget(r) PROVE WorkInv'
    <3>1. Sent(r) /\ DocType'
      BY <2>6 DEF LikeTarget, Sent, DocType
    <3>2. CASE req' = Goto(r, "chatFind") /\ background' = background
      <4>1. KindInv'
        BY <3>1, <3>2, <2>6, <2>b, Moves DEF LikeTarget, KindInv
      <4>2. BackgroundInv'
        BY <3>1, <3>2, <2>a, Moves, AtWork
      <4> QED BY <3>1, <4>1, <4>2 DEF WorkInv
    <3>3. CASE req' = Done(r) /\ background' = background \cup {Background("notify", r)}
      <4>1. background' = background \cup {Background(op, r) : op \in {"notify"}}
        BY <3>3
      <4>2. BackgroundInv'
        BY <3>1, <3>3, <4>1, BackgroundGrows
      <4> QED BY <3>1, <3>3, <4>2, <2>c DEF WorkInv
    <3> QED BY <3>2, <3>3, <2>6 DEF LikeTarget
  <2>7. ASSUME NEW r \in Request, ChatExists(r) \/ ChatCreate(r) PROVE WorkInv'
    <3>1. Sent(r) /\ Reply(r)
      BY <2>7 DEF ChatExists, ChatCreate, Sent
    <3>2. \E ops \in SUBSET {"notify", "unlikeMe", "unlikeTarget"} :
             background' = background \cup {Background(op, r) : op \in ops}
      <4>1. CASE req[r].kind = "like"
        <5>1. background' = background \cup {Background(op, r) : op \in {"notify"}}
          BY <3>1, <4>1 DEF Reply
        <5> QED BY <5>1
      <4>2. CASE req[r].kind # "like"
        <5>1. background' = background \cup {Background(op, r) : op \in {}}
          BY <3>1, <4>2 DEF Reply
        <5> QED BY <5>1
      <4> QED BY <4>1, <4>2
    <3>3. BackgroundInv'
      BY <3>1, <3>2, BackgroundGrows DEF Reply
    <3>4. DocType'
      <4>1. {req[r].me, req[r].target} \in Pair
        BY <3>1, AtWork DEF Pair
      <4>2. chats' \in [Pair -> Nat]
        <5> DEFINE p == {req[r].me, req[r].target}
        <5>1. chats' = chats \/ chats' = [chats EXCEPT ![p] = chats[p] + 1]
          BY <2>7 DEF ChatExists, ChatCreate
        <5>2. p \in Pair
          BY <4>1
        <5> HIDE DEF p
        <5> QED BY <5>1, <5>2 DEF DocType
      <4>3. UNCHANGED <<likedByMe, notices>>
        BY <2>7 DEF ChatExists, ChatCreate
      <4> QED BY <4>2, <4>3 DEF DocType
    <3> QED BY <3>1, <3>3, <3>4, <2>c DEF WorkInv, Reply
  <2>8. ASSUME NEW r \in Request, Unlike(r) PROVE WorkInv'
    <3>1. Sent(r) /\ req' = Done(r) /\ DocType'
      BY <2>8 DEF Unlike, Sent, DocType
    <3>2. BackgroundInv'
      BY <3>1, <2>8, BackgroundGrows DEF Unlike
    <3> QED BY <3>1, <3>2, <2>c DEF WorkInv
  <2>9. ASSUME NEW r \in Request, RewindStep(r) PROVE WorkInv'
    <3>1. Sent(r) /\ background' = background /\ UNCHANGED <<likedByMe, notices, chats>>
      BY <2>9 DEF RewindStep, RewindRead, RewindSave, RewindConflict, Sent
    <3>2. CASE req' = Done(r)
      BY <3>1, <3>2, <2>d
    <3>3. CASE RewindRead(r) /\ req' # Done(r)
      <4>1. /\ req'[r].pc = "rewindSave"
            /\ \A q \in Request : q # r => req'[q] = req[q]
        <5>1. DOMAIN req = Request /\ DOMAIN req[r] = Fields
          BY <3>1, AtWork DEF CoreType
        <5> QED BY <3>3, <5>1 DEF RewindRead, Fields
      <4>2. KindInv' /\ BackgroundInv'
        BY <3>1, <4>1, <2>a, <2>b, AtWork
      <4> QED BY <3>1, <4>2 DEF WorkInv, DocType
    <3> QED BY <3>2, <3>3, <2>9 DEF RewindStep, RewindSave, RewindConflict
  <2>10. ASSUME NEW r \in Request, Abort(r) PROVE WorkInv'
    BY <2>10, <2>d DEF Abort, Active, Sent
  <2>11. ASSUME NEW b \in background, Land(b) \/ LoseBackground(b) PROVE WorkInv'
    <3>1. background' \subseteq background /\ req' = req /\ chats' = chats
      BY <2>11 DEF Land, UnlikeMe, UnlikeTarget, Notify, LoseBackground
    <3>2. BackgroundInv' /\ KindInv'
      BY <3>1, BackgroundStays DEF KindInv
    <3>3. b.from \in User /\ b.to \in User
      BY DEF CoreType
    <3>4. DocType'
      <4>1. CASE UnlikeMe(b)
        BY <3>1, <3>3, <4>1 DEF UnlikeMe, DocType
      <4>2. CASE Notify(b)
        BY <3>1, <3>3, <4>2, PlusTyped DEF Notify, DocType
      <4> QED BY <3>1, <4>1, <4>2, <2>11 DEF Land, UnlikeTarget, LoseBackground, DocType
    <3> QED BY <3>2, <3>4 DEF WorkInv
  <2>12. CASE UNCHANGED vars
    BY <2>12 DEF vars, WorkInv, DocType, BackgroundInv, KindInv
  <2> QED
    BY <2>1, <2>2, <2>3, <2>4, <2>5, <2>6, <2>7, <2>8, <2>9, <2>10, <2>11, <2>12
    DEF Next, LikeStep, ChatStep
<1> QED BY <1>1, <1>2, CoreTypeCorrect, PTL DEF Spec

-----------------------------------------------------------------------------
(* Notifications.                                                          *)

OwesAtWork(r, u, v) ==
    /\ req[r].pc \in {"likeTarget", "chatFind", "chatCreate"} /\ req[r].kind = "like"
    /\ req[r].me = u /\ req[r].target = v

OwesCall(r, u, v) ==
    \E b \in background : b.op = "notify" /\ b.id = r /\ b.from = u /\ b.to = v

\* The requests that have recorded a like of v by u and not yet notified it.
Owing(u, v) == {r \in Request : OwesAtWork(r, u, v) \/ OwesCall(r, u, v)}

NotifyInv ==
    ~aborted => \A u, v \in User : likes[u][v] = notices[u][v] + Cardinality(Owing(u, v))

\* They can be counted.
LEMMA OwingFinite ==
    ASSUME NEW u \in User, NEW v \in User
    PROVE  IsFiniteSet(Owing(u, v)) /\ Cardinality(Owing(u, v)) \in Nat
BY RequestAssumption, FS_Subset, FS_CardinalityType DEF Owing

\* A step of r that leaves what r owes, and the calls of the others.
LEMMA OwingSame ==
    ASSUME NEW r \in Request, NEW u, NEW v,
           \A q \in Request : q # r => req'[q] = req[q],
           \A q \in Request : q # r => (OwesCall(q, u, v)' <=> OwesCall(q, u, v)),
           (OwesAtWork(r, u, v) \/ OwesCall(r, u, v))' <=>
               OwesAtWork(r, u, v) \/ OwesCall(r, u, v)
    PROVE  Owing(u, v)' = Owing(u, v)
BY DEF Owing, OwesAtWork

\* A request that is not over has left no call.
LEMMA NoCallYet ==
    ASSUME BackgroundInv, NEW r \in Request, req[r] # Finished, NEW u, NEW v
    PROVE  ~OwesCall(r, u, v)
BY DEF BackgroundInv, OwesCall

\* A request that ends hands what it owes to a notification in background.
LEMMA HandsOver ==
    ASSUME CoreType, BackgroundInv, NEW r \in Request, Sent(r), req' = Done(r),
           NEW ops \in SUBSET {"notify", "unlikeMe", "unlikeTarget"},
           background' = background \cup {Background(op, r) : op \in ops},
           NEW u \in User, NEW v \in User,
           OwesAtWork(r, u, v) <=>
               "notify" \in ops /\ req[r].me = u /\ req[r].target = v
    PROVE  Owing(u, v)' = Owing(u, v)
<1>1. /\ \A q \in Request : q # r => req'[q] = req[q]
      /\ ~OwesAtWork(r, u, v)'
  BY Ends DEF Finished, OwesAtWork
<1>2. \A op \in ops : /\ Background(op, r).op = op /\ Background(op, r).id = r
                      /\ Background(op, r).from = req[r].me
                      /\ Background(op, r).to = req[r].target
  BY DEF Background
<1>3. \A q \in Request : q # r => (OwesCall(q, u, v)' <=> OwesCall(q, u, v))
  BY <1>2 DEF OwesCall
<1>4. ~OwesCall(r, u, v)
  BY NoCallYet, AtWork
<1>5. OwesCall(r, u, v)' <=> "notify" \in ops /\ req[r].me = u /\ req[r].target = v
  BY <1>2, <1>4 DEF OwesCall
<1> QED BY <1>1, <1>3, <1>4, <1>5, OwingSame

\* Every step keeps the account of likes and notifications.
LEMMA NotifyStep == CoreType /\ CoreType' /\ WorkInv /\ NotifyInv /\ [Next]_vars => NotifyInv'
<1> SUFFICES ASSUME CoreType, CoreType', DocType, BackgroundInv, KindInv, NotifyInv,
                    [Next]_vars, ~aborted'
             PROVE  NotifyInv'
  BY DEF WorkInv, NotifyInv
<1> USE DEF docs, history
<1>a. ASSUME ~aborted, UNCHANGED <<likes, notices>>,
             \A u, v \in User : Owing(u, v)' = Owing(u, v)
      PROVE  NotifyInv'
  BY <1>a DEF NotifyInv
\* A step that leaves no call, of a request that owes nothing or goes on owing.
<1>b. ASSUME NEW r \in Request, ~aborted, UNCHANGED <<likes, notices, background>>,
             req[r] # Finished, \A q \in Request : q # r => req'[q] = req[q],
             \A u, v \in User : OwesAtWork(r, u, v)' <=> OwesAtWork(r, u, v)
      PROVE  NotifyInv'
  <2>1. \A q \in Request : \A u, v \in User : OwesCall(q, u, v)' <=> OwesCall(q, u, v)
    BY <1>b DEF OwesCall
  <2>2. \A u, v \in User : Owing(u, v)' = Owing(u, v)
    BY <1>b, <2>1, OwingSame
  <2> QED BY <1>a, <1>b, <2>2
<1>1. ASSUME NEW r \in Request, Send(r) PROVE NotifyInv'
  <2>1. ~aborted /\ UNCHANGED <<likes, notices, background>> /\ req[r].pc = "idle"
    BY <1>1 DEF Send
  <2>2. req'[r].pc \notin {"likeTarget", "chatFind", "chatCreate"} \/ req'[r].kind # "like"
    BY <1>1, KindsAssumption DEF Send, FirstStep, CoreType
  <2>3. \A q \in Request : q # r => req'[q] = req[q]
    BY <1>1 DEF Send, CoreType
  <2>4. req[r] # Finished
    BY <2>1 DEF Finished
  <2> QED BY <2>1, <2>2, <2>3, <2>4, <1>b DEF OwesAtWork
<1>2. ASSUME NEW r \in Request, LikeRefused(r) PROVE NotifyInv'
  <2>1. /\ Sent(r) /\ ~aborted /\ UNCHANGED <<likes, notices, background>>
        /\ req' = Done(r) /\ req[r].pc = "gate"
    BY <1>2 DEF LikeRefused, Sent
  <2> QED BY <2>1, <1>b, Ends, AtWork DEF OwesAtWork, Finished
<1>3. ASSUME NEW r \in Request, LikeAccepted(r) \/ ChatMissing(r) PROVE NotifyInv'
  <2>1. /\ Sent(r) /\ ~aborted /\ UNCHANGED <<likes, notices, background>>
        /\ \/ req' = Goto(r, "check") /\ req[r].pc = "gate"
           \/ req' = Goto(r, "chatCreate") /\ req[r].pc = "chatFind"
    BY <1>3 DEF LikeAccepted, ChatMissing, Sent
  <2> QED BY <2>1, <1>b, Moves, AtWork DEF OwesAtWork
<1>4. ASSUME NEW r \in Request, Check(r) PROVE NotifyInv'
  <2>1. /\ Sent(r) /\ ~aborted /\ UNCHANGED <<likes, notices, background>>
        /\ req[r].pc = "check"
    BY <1>4 DEF Check, Sent
  <2>2. DOMAIN req = Request /\ DOMAIN req[r] = Fields
    BY <2>1, AtWork DEF CoreType
  <2>3. req'[r].pc = "likeMe" /\ \A q \in Request : q # r => req'[q] = req[q]
    BY <1>4, <2>2 DEF Check, Fields
  <2> QED BY <2>1, <2>3, <1>b, AtWork DEF OwesAtWork
<1>5. ASSUME NEW r \in Request, LikeMe(r) PROVE NotifyInv'
  <2>0. /\ Sent(r) /\ ~aborted /\ UNCHANGED <<notices, background>>
        /\ req' = Goto(r, "likeTarget") /\ req[r].pc = "likeMe" /\ req[r].kind = "like"
        /\ likes' = Plus(likes, req[r].me, req[r].target)
    BY <1>5 DEF LikeMe, Sent, KindInv
  <2>1. PICK me \in User, target \in User : me = req[r].me /\ target = req[r].target
    BY <2>0, AtWork
  <2>3. \A u, v \in User :
           likes'[u][v] = IF u = me /\ v = target THEN likes[u][v] + 1 ELSE likes[u][v]
    <3>1. likes' = Plus(likes, me, target) /\ likes \in [User -> [User -> Nat]]
      BY <2>0, <2>1 DEF CoreType
    <3> QED BY <3>1 DEF Plus
  <2>4. \A q \in Request : \A u, v \in User : OwesCall(q, u, v)' <=> OwesCall(q, u, v)
    BY <2>0 DEF OwesCall
  <2>5. \A u, v \in User : r \notin Owing(u, v)
    BY <2>0, NoCallYet, AtWork DEF Owing, OwesAtWork
  <2>6. \A u, v \in User :
           Owing(u, v)' = IF u = me /\ v = target THEN Owing(u, v) \cup {r} ELSE Owing(u, v)
    <3>1. \A u, v \in User : OwesAtWork(r, u, v)' <=> u = me /\ v = target
      BY <2>0, <2>1, Moves DEF OwesAtWork
    <3>2. \A q \in Request : q # r =>
             \A u, v \in User : OwesAtWork(q, u, v)' <=> OwesAtWork(q, u, v)
      BY <2>0, Moves DEF OwesAtWork
    <3> QED BY <2>4, <2>5, <3>1, <3>2 DEF Owing
  <2>7. \A u, v \in User : Cardinality(Owing(u, v)') =
           IF u = me /\ v = target THEN Cardinality(Owing(u, v)) + 1
                                  ELSE Cardinality(Owing(u, v))
    <3>1. Cardinality(Owing(me, target) \cup {r}) = Cardinality(Owing(me, target)) + 1
      BY <2>5, OwingFinite, FS_AddElement
    <3> QED BY <2>6, <3>1
  <2>8. \A u, v \in User : likes[u][v] \in Nat /\ notices[u][v] \in Nat
    BY DEF CoreType, DocType
  <2> QED BY <2>0, <2>3, <2>7, <2>8, OwingFinite DEF NotifyInv
<1>6. ASSUME NEW r \in Request, LikeTarget(r) PROVE NotifyInv'
  <2>1. /\ Sent(r) /\ ~aborted /\ UNCHANGED <<likes, notices>> /\ req[r].pc = "likeTarget"
    BY <1>6 DEF LikeTarget, Sent
  <2>2. CASE req' = Goto(r, "chatFind") /\ background' = background
    BY <2>1, <2>2, <1>b, Moves, AtWork DEF OwesAtWork
  <2>3. CASE req' = Done(r) /\ background' = background \cup {Background("notify", r)}
    <3>1. background' = background \cup {Background(op, r) : op \in {"notify"}}
      BY <2>3
    <3>2. \A u, v \in User : OwesAtWork(r, u, v) <=> req[r].me = u /\ req[r].target = v
      BY <2>1 DEF OwesAtWork, KindInv
    <3>3. \A u, v \in User : Owing(u, v)' = Owing(u, v)
      BY <2>1, <2>3, <3>1, <3>2, HandsOver
    <3> QED BY <2>1, <3>3, <1>a
  <2> QED BY <2>2, <2>3, <1>6 DEF LikeTarget
<1>7. ASSUME NEW r \in Request, ChatExists(r) \/ ChatCreate(r) PROVE NotifyInv'
  <2>1. /\ Sent(r) /\ ~aborted /\ UNCHANGED <<likes, notices>> /\ Reply(r)
        /\ req[r].pc \in {"chatFind", "chatCreate"}
    BY <1>7 DEF ChatExists, ChatCreate, Sent
  <2>2. CASE req[r].kind = "like"
    <3>1. background' = background \cup {Background(op, r) : op \in {"notify"}}
      BY <2>1, <2>2 DEF Reply
    <3>2. \A u, v \in User : OwesAtWork(r, u, v) <=> req[r].me = u /\ req[r].target = v
      BY <2>1, <2>2 DEF OwesAtWork
    <3>3. \A u, v \in User : Owing(u, v)' = Owing(u, v)
      BY <2>1, <3>1, <3>2, HandsOver DEF Reply
    <3> QED BY <2>1, <3>3, <1>a
  <2>3. CASE req[r].kind # "like"
    <3>1. background' = background
      BY <2>1, <2>3 DEF Reply
    <3> QED BY <2>1, <2>3, <3>1, <1>b, Ends, AtWork DEF Reply, OwesAtWork, Finished
  <2> QED BY <2>2, <2>3
<1>8. ASSUME NEW r \in Request, Unlike(r) PROVE NotifyInv'
  <2>1. /\ Sent(r) /\ ~aborted /\ UNCHANGED <<likes, notices>> /\ req' = Done(r)
        /\ req[r].pc = "unlike"
        /\ background' = background \cup
               {Background(op, r) : op \in {"unlikeMe", "unlikeTarget"}}
    BY <1>8 DEF Unlike, Sent
  <2>2. \A u, v \in User : Owing(u, v)' = Owing(u, v)
    <3> DEFINE ops == {"unlikeMe", "unlikeTarget"}
    <3>1. \A u, v \in User : ~OwesAtWork(r, u, v)
      BY <2>1 DEF OwesAtWork
    <3>2. /\ ops \in SUBSET {"notify", "unlikeMe", "unlikeTarget"} /\ "notify" \notin ops
          /\ background' = background \cup {Background(op, r) : op \in ops}
      BY <2>1
    <3> HIDE DEF ops
    <3> QED BY <2>1, <3>1, <3>2, HandsOver
  <2> QED BY <2>1, <2>2, <1>a
<1>9. ASSUME NEW r \in Request, RewindStep(r) PROVE NotifyInv'
  <2>1. /\ Sent(r) /\ ~aborted /\ UNCHANGED <<likes, notices, background>>
        /\ req[r].pc \in {"rewindRead", "rewindSave"}
    BY <1>9 DEF RewindStep, RewindRead, RewindSave, RewindConflict, Sent
  <2>2. CASE req' = Done(r)
    BY <2>1, <2>2, <1>b, Ends, AtWork DEF OwesAtWork, Finished
  <2>3. CASE RewindRead(r) /\ req' # Done(r)
    <3>1. DOMAIN req = Request /\ DOMAIN req[r] = Fields
      BY <2>1, AtWork DEF CoreType
    <3>2. req'[r].pc = "rewindSave" /\ \A q \in Request : q # r => req'[q] = req[q]
      BY <2>3, <3>1 DEF RewindRead, Fields
    <3> QED BY <2>1, <3>2, <1>b, AtWork DEF OwesAtWork
  <2> QED BY <2>2, <2>3, <1>9 DEF RewindStep, RewindSave, RewindConflict
<1>10. ASSUME NEW r \in Request, Abort(r) PROVE NotifyInv'
  BY <1>10 DEF Abort
<1>11. ASSUME NEW b \in background, UnlikeMe(b) \/ UnlikeTarget(b) PROVE NotifyInv'
  <2>1. /\ ~aborted /\ UNCHANGED <<likes, notices, req>> /\ background' = background \ {b}
        /\ b.op # "notify"
    BY <1>11 DEF UnlikeMe, UnlikeTarget
  <2>2. \A u, v \in User : Owing(u, v)' = Owing(u, v)
    BY <2>1 DEF Owing, OwesAtWork, OwesCall
  <2> QED BY <2>1, <2>2, <1>a
<1>12. ASSUME NEW b \in background, Notify(b) PROVE NotifyInv'
  <2>1. /\ ~aborted /\ UNCHANGED <<likes, req>> /\ background' = background \ {b}
        /\ b.op = "notify" /\ notices' = Plus(notices, b.from, b.to)
    BY <1>12 DEF Notify
  <2>2. b.from \in User /\ b.to \in User /\ b.id \in Request /\ req[b.id] = Finished
    BY DEF CoreType, BackgroundInv
  <2>3. \A u, v \in User :
           notices'[u][v] = IF u = b.from /\ v = b.to THEN notices[u][v] + 1 ELSE notices[u][v]
    BY <2>1, <2>2, PlusTyped DEF DocType
  <2>4. \A u, v \in User : OwesCall(b.id, u, v) <=> u = b.from /\ v = b.to
    BY <2>1 DEF OwesCall, BackgroundInv
  <2>5. \A u, v \in User : b.id \in Owing(u, v) <=> u = b.from /\ v = b.to
    BY <2>2, <2>4 DEF Owing, OwesAtWork, Finished
  <2>6. \A u, v \in User :
           Owing(u, v)' = IF u = b.from /\ v = b.to THEN Owing(u, v) \ {b.id} ELSE Owing(u, v)
    <3>1. \A q \in Request : \A u, v \in User : OwesAtWork(q, u, v)' <=> OwesAtWork(q, u, v)
      BY <2>1 DEF OwesAtWork
    <3>2. \A q \in Request : q # b.id =>
             \A u, v \in User : OwesCall(q, u, v)' <=> OwesCall(q, u, v)
      BY <2>1 DEF OwesCall
    <3>3. \A u, v \in User : ~OwesCall(b.id, u, v)' /\ ~OwesAtWork(b.id, u, v)
      BY <2>1, <2>2 DEF OwesCall, OwesAtWork, BackgroundInv, Finished
    <3> QED BY <2>2, <2>4, <2>5, <3>1, <3>2, <3>3 DEF Owing
  <2>7. \A u, v \in User : Cardinality(Owing(u, v)') =
           IF u = b.from /\ v = b.to THEN Cardinality(Owing(u, v)) - 1
                                    ELSE Cardinality(Owing(u, v))
    <3>1. Cardinality(Owing(b.from, b.to) \ {b.id}) = Cardinality(Owing(b.from, b.to)) - 1
      BY <2>2, <2>5, OwingFinite, FS_RemoveElement
    <3> QED BY <2>6, <3>1
  <2>8. \A u, v \in User : likes[u][v] \in Nat /\ notices[u][v] \in Nat
    BY DEF CoreType, DocType
  <2> QED BY <2>1, <2>3, <2>7, <2>8, OwingFinite DEF NotifyInv
<1>13. ASSUME NEW b \in background, LoseBackground(b) PROVE NotifyInv'
  BY <1>13 DEF LoseBackground
<1>14. CASE UNCHANGED vars
  BY <1>14 DEF vars, NotifyInv, Owing, OwesAtWork, OwesCall
<1> QED
  BY <1>1, <1>2, <1>3, <1>4, <1>5, <1>6, <1>7, <1>8, <1>9, <1>10, <1>11, <1>12, <1>13, <1>14
  DEF Next, LikeStep, ChatStep, Land

\* When all is done and nothing failed, each like that was recorded has been
\* notified exactly once, however requests and calls in background interleaved.
THEOREM LikesNotified == Spec => []EveryLikeNotified
<1>1. Init => NotifyInv
  <2> SUFFICES ASSUME Init PROVE NotifyInv
    OBVIOUS
  <2>1. \A u, v \in User : Owing(u, v) = {}
    BY DEF Init, Idle, Owing, OwesAtWork, OwesCall
  <2>2. \A u, v \in User : Cardinality(Owing(u, v)) = 0
    BY <2>1, FS_EmptySet
  <2> QED BY <2>2 DEF Init, NotifyInv, Count0
<1>2. CoreType /\ WorkInv /\ NotifyInv => EveryLikeNotified
  <2> SUFFICES ASSUME CoreType, DocType, NotifyInv, Quiescent, ~aborted
               PROVE  notices = likes
    BY DEF EveryLikeNotified, WorkInv
  <2>1. \A u, v \in User : Owing(u, v) = {}
    BY DEF Quiescent, Active, Owing, OwesAtWork, OwesCall
  <2>2. \A u, v \in User : Cardinality(Owing(u, v)) = 0
    BY <2>1, FS_EmptySet
  <2>3. \A u, v \in User : likes[u][v] = notices[u][v]
    BY <2>2 DEF NotifyInv, CoreType, DocType
  <2> QED BY <2>3 DEF CoreType, DocType
<1> QED BY <1>1, <1>2, NotifyStep, WorkHolds, CoreTypeCorrect, PTL DEF Spec

-----------------------------------------------------------------------------
(* The two documents of a like.                                            *)

\* The likes of v by u that stand between their two updates.
HalfLiked(u, v) ==
    {r \in Request : req[r].pc = "likeTarget" /\ req[r].me = u /\ req[r].target = v}

Balanced(u, v) == likedByMe[u][v] = likedBySomeone[v][u] + Cardinality(HalfLiked(u, v))

\* One request at a time, the updates of a pass land before anything else is at
\* work, and what one of them empties stays empty until the other has landed.
PassInv ==
    /\ \A r, s \in Active : r = s
    /\ Active # {} => PendingUnlikes = {}
    /\ \A b, c \in PendingUnlikes : b.from = c.from /\ b.to = c.to
    /\ \A b \in PendingUnlikes :
          /\ (\A c \in PendingUnlikes : c.op # "unlikeMe") => likedByMe[b.from][b.to] = 0
          /\ (\A c \in PendingUnlikes : c.op # "unlikeTarget") =>
                 likedBySomeone[b.to][b.from] = 0

\* Unless a pass overlaps another request, the two documents differ by the likes
\* between their updates, but for the pair whose pass is landing.
AgreeInv ==
    ~aborted =>
        /\ ~passed => PendingUnlikes = {}
        /\ ~overlapped => PassInv
        /\ ~passed \/ ~overlapped =>
              \A u, v \in User :
                  (\A b \in PendingUnlikes : ~(b.from = u /\ b.to = v)) => Balanced(u, v)

\* The half-recorded likes can be counted.
LEMMA HalfLikedFinite ==
    ASSUME NEW u \in User, NEW v \in User
    PROVE  IsFiniteSet(HalfLiked(u, v)) /\ Cardinality(HalfLiked(u, v)) \in Nat
BY RequestAssumption, FS_Subset, FS_CardinalityType DEF HalfLiked

\* With nothing at work there are none.
LEMMA NoneHalfLiked ==
    ASSUME Active = {}, NEW u \in User, NEW v \in User
    PROVE  Cardinality(HalfLiked(u, v)) = 0
<1>1. HalfLiked(u, v) = {}
  BY DEF HalfLiked, Active
<1> QED BY <1>1, FS_EmptySet

\* A request that stays clear of likeTarget leaves the balance.
LEMMA AgreeQuiet ==
    ASSUME AgreeInv, ~aborted, UNCHANGED <<overlapped, passed, likedByMe, likedBySomeone>>,
           PendingUnlikes' = PendingUnlikes,
           NEW r \in Request, Sent(r), \A q \in Request : q # r => req'[q] = req[q],
           req[r].pc # "likeTarget", req'[r].pc # "likeTarget"
    PROVE  AgreeInv'
<1>1. \A u, v \in User : HalfLiked(u, v)' = HalfLiked(u, v)
  BY DEF HalfLiked
<1>2. \A u, v \in User : Balanced(u, v)' <=> Balanced(u, v)
  BY <1>1 DEF Balanced
<1>3. Active' \subseteq Active
  BY DEF Active, Sent
<1>4. PassInv => PassInv'
  BY <1>3 DEF PassInv
<1> QED BY <1>2, <1>4 DEF AgreeInv

\* Every step keeps it.
LEMMA AgreeStep == CoreType /\ CoreType' /\ WorkInv /\ WorkInv' /\ AgreeInv /\ [Next]_vars => AgreeInv'
<1> SUFFICES ASSUME CoreType, CoreType', DocType, DocType', BackgroundInv, KindInv, AgreeInv,
                    [Next]_vars, ~aborted'
             PROVE  AgreeInv'
  BY DEF WorkInv, AgreeInv
<1> USE DEF docs, history
<1>0. /\ \A u, v \in User : likedByMe[u][v] \in Nat /\ likedByMe'[u][v] \in Nat
      /\ \A u, v \in User : likedBySomeone[u][v] \in Nat /\ likedBySomeone'[u][v] \in Nat
  BY DEF CoreType, DocType
<1>1. ASSUME NEW r \in Request, Send(r) PROVE AgreeInv'
  <2>1. /\ ~aborted /\ UNCHANGED <<passed, likedByMe, likedBySomeone, background>>
        /\ overlapped' = (overlapped \/ Active # {} \/ PendingUnlikes # {})
        /\ req[r].pc = "idle"
    BY <1>1 DEF Send
  <2>2. req'[r].pc # "likeTarget" /\ \A q \in Request : q # r => req'[q] = req[q]
    BY <1>1, KindsAssumption DEF Send, FirstStep, CoreType
  <2>3. PendingUnlikes' = PendingUnlikes
    BY <2>1 DEF PendingUnlikes
  <2>4. \A u, v \in User : HalfLiked(u, v)' = HalfLiked(u, v)
    BY <2>1, <2>2 DEF HalfLiked
  <2>5. \A u, v \in User : Balanced(u, v)' <=> Balanced(u, v)
    BY <2>1, <2>4 DEF Balanced
  <2>6. ~overlapped' => PassInv'
    <3>1. ASSUME ~overlapped' PROVE Active' \subseteq {r} /\ PendingUnlikes' = {}
      BY <2>1, <2>2, <2>3, <3>1 DEF Active
    <3> QED BY <3>1 DEF PassInv
  <2> QED BY <2>1, <2>3, <2>5, <2>6 DEF AgreeInv
<1>2. ASSUME NEW r \in Request, LikeRefused(r) PROVE AgreeInv'
  <2>1. /\ Sent(r) /\ ~aborted /\ req[r].pc = "gate" /\ req' = Done(r)
        /\ UNCHANGED <<overlapped, passed, likedByMe, likedBySomeone, background>>
    BY <1>2 DEF LikeRefused, Sent
  <2>2. req'[r].pc = "done" /\ \A q \in Request : q # r => req'[q] = req[q]
    BY <2>1, Ends DEF Finished
  <2> QED BY <2>1, <2>2, AgreeQuiet DEF PendingUnlikes
<1>3. ASSUME NEW r \in Request, LikeAccepted(r) \/ ChatMissing(r) PROVE AgreeInv'
  <2>1. /\ Sent(r) /\ ~aborted /\ req[r].pc # "likeTarget"
        /\ req' = Goto(r, "check") \/ req' = Goto(r, "chatCreate")
        /\ UNCHANGED <<overlapped, passed, likedByMe, likedBySomeone, background>>
    BY <1>3 DEF LikeAccepted, ChatMissing, Sent
  <2>2. req'[r].pc # "likeTarget" /\ \A q \in Request : q # r => req'[q] = req[q]
    BY <2>1, Moves
  <2> QED BY <2>1, <2>2, AgreeQuiet DEF PendingUnlikes
<1>4. ASSUME NEW r \in Request, Check(r) PROVE AgreeInv'
  <2>1. /\ Sent(r) /\ ~aborted /\ req[r].pc = "check"
        /\ UNCHANGED <<overlapped, passed, likedByMe, likedBySomeone, background>>
    BY <1>4 DEF Check, Sent
  <2>2. DOMAIN req = Request /\ DOMAIN req[r] = Fields
    BY <2>1, AtWork DEF CoreType
  <2>3. req'[r].pc = "likeMe" /\ \A q \in Request : q # r => req'[q] = req[q]
    BY <1>4, <2>2 DEF Check, Fields
  <2> QED BY <2>1, <2>3, AgreeQuiet DEF PendingUnlikes
<1>5. ASSUME NEW r \in Request, LikeMe(r) PROVE AgreeInv'
  <2>1. /\ Sent(r) /\ ~aborted /\ UNCHANGED <<overlapped, passed, likedBySomeone, background>>
        /\ req' = Goto(r, "likeTarget") /\ req[r].pc = "likeMe"
        /\ likedByMe' = Plus(likedByMe, req[r].me, req[r].target)
    BY <1>5 DEF LikeMe, Sent
  <2>2. PICK me \in User, target \in User : me = req[r].me /\ target = req[r].target
    BY <2>1, AtWork
  <2>3. \A u, v \in User : likedByMe'[u][v] =
           IF u = me /\ v = target THEN likedByMe[u][v] + 1 ELSE likedByMe[u][v]
    <3>1. likedByMe' = Plus(likedByMe, me, target) /\ likedByMe \in [User -> [User -> Nat]]
      BY <2>1, <2>2 DEF DocType
    <3> QED BY <3>1 DEF Plus
  <2>4. \A u, v \in User : HalfLiked(u, v)' =
           IF u = me /\ v = target THEN HalfLiked(u, v) \cup {r} ELSE HalfLiked(u, v)
    BY <2>1, <2>2, Moves DEF HalfLiked
  <2>5. r \notin HalfLiked(me, target)
    BY <2>1 DEF HalfLiked
  <2>6. \A u, v \in User : Cardinality(HalfLiked(u, v)') =
           IF u = me /\ v = target THEN Cardinality(HalfLiked(u, v)) + 1
                                  ELSE Cardinality(HalfLiked(u, v))
    <3>1. Cardinality(HalfLiked(me, target) \cup {r}) = Cardinality(HalfLiked(me, target)) + 1
      BY <2>5, HalfLikedFinite, FS_AddElement
    <3> QED BY <2>4, <3>1
  <2>7. \A u, v \in User : Balanced(u, v) => Balanced(u, v)'
    BY <1>0, <2>1, <2>3, <2>6, HalfLikedFinite DEF Balanced
  <2>8. PendingUnlikes' = PendingUnlikes /\ Active' \subseteq Active /\ r \in Active
    BY <2>1, Moves DEF PendingUnlikes, Active, Sent
  <2>9. PassInv => PassInv'
    BY <2>8 DEF PassInv
  <2> QED BY <2>1, <2>7, <2>8, <2>9 DEF AgreeInv
<1>6. ASSUME NEW r \in Request, LikeTarget(r) PROVE AgreeInv'
  <2>1. /\ Sent(r) /\ ~aborted /\ UNCHANGED <<overlapped, passed, likedByMe>>
        /\ req[r].pc = "likeTarget"
        /\ likedBySomeone' = Plus(likedBySomeone, req[r].target, req[r].me)
    BY <1>6 DEF LikeTarget, Sent
  <2>2. PICK me \in User, target \in User : me = req[r].me /\ target = req[r].target
    BY <2>1, AtWork
  <2>3. \A u, v \in User : likedBySomeone'[v][u] =
           IF u = me /\ v = target THEN likedBySomeone[v][u] + 1 ELSE likedBySomeone[v][u]
    <3>1. /\ likedBySomeone' = Plus(likedBySomeone, target, me)
          /\ likedBySomeone \in [User -> [User -> Nat]]
      BY <2>1, <2>2 DEF CoreType
    <3> QED BY <3>1 DEF Plus
  <2>4. req'[r].pc # "likeTarget" /\ \A q \in Request : q # r => req'[q] = req[q]
    BY <1>6, <2>1, Moves, Ends DEF LikeTarget, Finished
  <2>5. \A u, v \in User : HalfLiked(u, v)' =
           IF u = me /\ v = target THEN HalfLiked(u, v) \ {r} ELSE HalfLiked(u, v)
    BY <2>2, <2>4 DEF HalfLiked
  <2>6. r \in HalfLiked(me, target)
    BY <2>1, <2>2 DEF HalfLiked
  <2>7. \A u, v \in User : Cardinality(HalfLiked(u, v)') =
           IF u = me /\ v = target THEN Cardinality(HalfLiked(u, v)) - 1
                                  ELSE Cardinality(HalfLiked(u, v))
    <3>1. Cardinality(HalfLiked(me, target) \ {r}) = Cardinality(HalfLiked(me, target)) - 1
      BY <2>6, HalfLikedFinite, FS_RemoveElement
    <3> QED BY <2>5, <3>1
  <2>8. \A u, v \in User : Balanced(u, v) => Balanced(u, v)'
    BY <1>0, <2>1, <2>3, <2>7, HalfLikedFinite DEF Balanced
  <2>9. PendingUnlikes' = PendingUnlikes
    <3>1. CASE background' = background
      BY <3>1 DEF PendingUnlikes
    <3>2. CASE background' = background \cup {Background("notify", r)}
      BY <3>2 DEF PendingUnlikes, Background
    <3> QED BY <3>1, <3>2, <1>6 DEF LikeTarget
  <2>10. Active' \subseteq Active /\ r \in Active
    BY <2>1, <2>4 DEF Active
  <2>11. PassInv => PassInv'
    BY <2>9, <2>10 DEF PassInv
  <2> QED BY <2>1, <2>8, <2>9, <2>11 DEF AgreeInv
<1>7. ASSUME NEW r \in Request, ChatExists(r) \/ ChatCreate(r) PROVE AgreeInv'
  <2>1. /\ Sent(r) /\ ~aborted /\ req[r].pc # "likeTarget" /\ Reply(r)
        /\ UNCHANGED <<overlapped, passed, likedByMe, likedBySomeone>>
    BY <1>7 DEF ChatExists, ChatCreate, Sent
  <2>2. req'[r].pc = "done" /\ \A q \in Request : q # r => req'[q] = req[q]
    BY <2>1, Ends DEF Reply, Finished
  <2>3. PendingUnlikes' = PendingUnlikes
    BY <2>1 DEF Reply, PendingUnlikes, Background
  <2> QED BY <2>1, <2>2, <2>3, AgreeQuiet
<1>8. ASSUME NEW r \in Request, Unlike(r) PROVE AgreeInv'
  <2>1. /\ Sent(r) /\ ~aborted /\ passed' /\ req[r].pc = "unlike" /\ req' = Done(r)
        /\ UNCHANGED <<overlapped, likedByMe, likedBySomeone>>
        /\ background' = background \cup
               {Background(op, r) : op \in {"unlikeMe", "unlikeTarget"}}
    BY <1>8 DEF Unlike, Sent
  <2> SUFFICES ASSUME ~overlapped PROVE AgreeInv'
    BY <2>1 DEF AgreeInv
  <2>2. /\ req'[r].pc = "done" /\ \A q \in Request : q # r => req'[q] = req[q]
        /\ r \in Active
    BY <2>1, Ends DEF Finished, Active
  <2>3. PassInv /\ PendingUnlikes = {} /\ \A u, v \in User : Balanced(u, v)
    BY <2>1, <2>2 DEF AgreeInv, PassInv
  <2>4. Active' = {}
    BY <2>2, <2>3 DEF Active, PassInv
  <2>5. PendingUnlikes' = {Background("unlikeMe", r), Background("unlikeTarget", r)}
    BY <2>1, <2>3 DEF PendingUnlikes, Background
  <2>6. \A u, v \in User : HalfLiked(u, v)' = HalfLiked(u, v)
    BY <2>1, <2>2 DEF HalfLiked
  <2>7. \A u, v \in User : Balanced(u, v)'
    BY <2>1, <2>3, <2>6 DEF Balanced
  <2>8. PassInv'
    BY <2>4, <2>5 DEF PassInv, Background
  <2> QED BY <2>1, <2>7, <2>8 DEF AgreeInv
<1>9. ASSUME NEW r \in Request, RewindStep(r) PROVE AgreeInv'
  <2>1. /\ Sent(r) /\ ~aborted /\ req[r].pc # "likeTarget"
        /\ UNCHANGED <<overlapped, passed, likedByMe, likedBySomeone, background>>
    BY <1>9 DEF RewindStep, RewindRead, RewindSave, RewindConflict, Sent
  <2>2. CASE req' = Done(r)
    <3>1. req'[r].pc = "done" /\ \A q \in Request : q # r => req'[q] = req[q]
      BY <2>2, Ends DEF Finished
    <3> QED BY <2>1, <3>1, AgreeQuiet DEF PendingUnlikes
  <2>3. CASE RewindRead(r) /\ req' # Done(r)
    <3>1. DOMAIN req = Request /\ DOMAIN req[r] = Fields
      BY <2>1, AtWork DEF CoreType
    <3>2. req'[r].pc = "rewindSave" /\ \A q \in Request : q # r => req'[q] = req[q]
      BY <2>3, <3>1 DEF RewindRead, Fields
    <3> QED BY <2>1, <3>2, AgreeQuiet DEF PendingUnlikes
  <2> QED BY <2>2, <2>3, <1>9 DEF RewindStep, RewindSave, RewindConflict
<1>10. ASSUME NEW r \in Request, Abort(r) PROVE AgreeInv'
  BY <1>10 DEF Abort
\* The two updates of a pass: only one request at a time says anything.
<1>11. ASSUME NEW b \in background, UnlikeMe(b) \/ UnlikeTarget(b) PROVE AgreeInv'
  <2>1. /\ ~aborted /\ UNCHANGED <<overlapped, passed, req>>
        /\ background' = background \ {b} /\ b \in PendingUnlikes
        /\ b.from \in User /\ b.to \in User
    <3>1. b.from \in User /\ b.to \in User
      BY DEF CoreType
    <3>2. CASE UnlikeMe(b)
      BY <3>1, <3>2 DEF UnlikeMe, PendingUnlikes
    <3>3. CASE UnlikeTarget(b)
      BY <3>1, <3>3 DEF UnlikeTarget, PendingUnlikes
    <3> QED BY <3>2, <3>3, <1>11
  <2>2. PendingUnlikes' = PendingUnlikes \ {b} /\ Active' = Active
    BY <2>1 DEF PendingUnlikes, Active
  <2> SUFFICES ASSUME ~overlapped PROVE AgreeInv'
    BY <2>1, <2>2 DEF AgreeInv
  <2>3. PassInv /\ Active = {} /\ Active' = {}
    BY <2>1, <2>2 DEF AgreeInv, PassInv
  <2>4. \A u, v \in User : Cardinality(HalfLiked(u, v)) = 0 /\ Cardinality(HalfLiked(u, v)') = 0
    <3>1. \A u, v \in User : HalfLiked(u, v)' = HalfLiked(u, v)
      BY <2>1 DEF HalfLiked
    <3> QED BY <2>3, <3>1, NoneHalfLiked
  <2>a. PICK from \in User, to \in User : from = b.from /\ to = b.to
    BY <2>1
  <2>b. ASSUME UnlikeMe(b)
        PROVE  /\ b.op = "unlikeMe" /\ likedBySomeone' = likedBySomeone
               /\ \A u, v \in User : likedByMe'[u][v] =
                     IF u = from /\ v = to THEN 0 ELSE likedByMe[u][v]
    <3>1. /\ likedByMe' = [likedByMe EXCEPT ![from][to] = 0]
          /\ likedByMe \in [User -> [User -> Nat]]
          /\ likedBySomeone' = likedBySomeone
      BY <2>a, <2>b DEF UnlikeMe, DocType
    <3>2. \A u, v \in User : likedByMe'[u][v] =
             IF u = from /\ v = to THEN 0 ELSE likedByMe[u][v]
      BY <3>1
    <3> QED BY <2>b, <3>1, <3>2 DEF UnlikeMe
  <2>c. ASSUME UnlikeTarget(b)
        PROVE  /\ b.op = "unlikeTarget" /\ likedByMe' = likedByMe
               /\ \A u, v \in User : likedBySomeone'[v][u] =
                     IF u = from /\ v = to THEN 0 ELSE likedBySomeone[v][u]
    <3>1. /\ likedBySomeone' = [likedBySomeone EXCEPT ![to][from] = 0]
          /\ likedBySomeone \in [User -> [User -> Nat]]
          /\ likedByMe' = likedByMe
      BY <2>a, <2>c DEF UnlikeTarget, CoreType
    <3>2. \A u, v \in User : likedBySomeone'[v][u] =
             IF u = from /\ v = to THEN 0 ELSE likedBySomeone[v][u]
      BY <3>1
    <3> QED BY <2>c, <3>1, <3>2 DEF UnlikeTarget
  <2>5. \A u, v \in User : ~(u = b.from /\ v = b.to) =>
           likedByMe'[u][v] = likedByMe[u][v] /\ likedBySomeone'[v][u] = likedBySomeone[v][u]
    BY <1>11, <2>a, <2>b, <2>c
  <2>6. \/ /\ b.op = "unlikeMe" /\ likedByMe'[b.from][b.to] = 0
           /\ likedBySomeone' = likedBySomeone
        \/ /\ b.op = "unlikeTarget" /\ likedBySomeone'[b.to][b.from] = 0
           /\ likedByMe' = likedByMe
    BY <1>11, <2>a, <2>b, <2>c
  <2>7. PassInv'
    BY <2>2, <2>3, <2>1, <2>6 DEF PassInv
  <2>8. ASSUME NEW u \in User, NEW v \in User,
               \A c \in PendingUnlikes' : ~(c.from = u /\ c.to = v)
        PROVE  Balanced(u, v)'
    <3>1. CASE u = b.from /\ v = b.to
      <4>1. \A c \in PendingUnlikes : c = b
        BY <2>1, <2>2, <2>3, <2>8, <3>1 DEF PassInv
      <4>2. likedByMe'[u][v] = 0 /\ likedBySomeone'[v][u] = 0
        BY <2>1, <2>3, <2>6, <3>1, <4>1 DEF PassInv
      <4> QED BY <2>4, <4>2 DEF Balanced
    <3>2. CASE ~(u = b.from /\ v = b.to)
      <4>1. \A c \in PendingUnlikes : ~(c.from = u /\ c.to = v)
        BY <2>2, <2>8, <3>2
      <4>2. Balanced(u, v)
        BY <2>1, <4>1 DEF AgreeInv
      <4> QED BY <2>4, <2>5, <3>2, <4>2 DEF Balanced
    <3> QED BY <3>1, <3>2
  <2> QED BY <2>1, <2>2, <2>7, <2>8 DEF AgreeInv
<1>12. ASSUME NEW b \in background, Notify(b) PROVE AgreeInv'
  <2>1. /\ ~aborted /\ UNCHANGED <<overlapped, passed, req, likedByMe, likedBySomeone>>
        /\ PendingUnlikes' = PendingUnlikes
    BY <1>12 DEF Notify, PendingUnlikes
  <2> QED BY <2>1 DEF AgreeInv, PassInv, Balanced, HalfLiked, Active
<1>13. ASSUME NEW b \in background, LoseBackground(b) PROVE AgreeInv'
  BY <1>13 DEF LoseBackground
<1>14. CASE UNCHANGED vars
  BY <1>14 DEF vars, AgreeInv, PassInv, Balanced, HalfLiked, Active, PendingUnlikes
<1> QED
  BY <1>1, <1>2, <1>3, <1>4, <1>5, <1>6, <1>7, <1>8, <1>9, <1>10, <1>11, <1>12, <1>13, <1>14
  DEF Next, LikeStep, ChatStep, Land

\* So it always holds.
LEMMA AgreeHolds == Spec => []AgreeInv
<1>1. Init => AgreeInv
  <2> SUFFICES ASSUME Init PROVE AgreeInv
    OBVIOUS
  <2>1. Active = {} /\ PendingUnlikes = {}
    BY DEF Init, Idle, Active, PendingUnlikes
  <2>2. \A u, v \in User : Cardinality(HalfLiked(u, v)) = 0
    BY <2>1, NoneHalfLiked
  <2>3. \A u, v \in User : Balanced(u, v)
    BY <2>2 DEF Init, Count0, Balanced
  <2> QED BY <2>1, <2>3 DEF AgreeInv, PassInv
<1> QED BY <1>1, AgreeStep, WorkHolds, CoreTypeCorrect, PTL DEF Spec

\* When all is done and nothing failed, the liker's document and the liked
\* user's tell the same likes: with overlapping requests as long as nobody
\* passes, and with passes as long as requests come one at a time.
THEOREM DocumentsAgree == Spec => []LikesAgree
<1>1. CoreType /\ WorkInv /\ AgreeInv => LikesAgree
  <2> SUFFICES ASSUME CoreType, DocType, AgreeInv, Quiescent, ~aborted,
                      ~overlapped \/ ~passed, NEW u \in User, NEW v \in User
               PROVE  likedByMe[u][v] = likedBySomeone[v][u]
    BY DEF LikesAgree, WorkInv
  <2>1. Active = {} /\ PendingUnlikes = {}
    BY DEF Quiescent, PendingUnlikes
  <2>2. Balanced(u, v) /\ Cardinality(HalfLiked(u, v)) = 0
    BY <2>1, NoneHalfLiked DEF AgreeInv
  <2> QED BY <2>2 DEF Balanced, CoreType, DocType
<1> QED BY <1>1, AgreeHolds, WorkHolds, CoreTypeCorrect, PTL

-----------------------------------------------------------------------------
(* The chat of a match.                                                    *)

Of(r) == {req[r].me, req[r].target}

\* One request at a time, the chat that a request is about to create is still
\* missing: nobody has created it since the request looked.
SingleInv ==
    ~overlapped =>
        /\ \A r, s \in Active : r = s
        /\ \A p \in Pair : chats[p] <= 1
        /\ \A r \in Request : req[r].pc = "chatCreate" => chats[Of(r)] = 0

\* A request that is on its way to the chat of u and v.
Matching(u, v) ==
    \E r \in Request :
        /\ Of(r) = {u, v}
        /\ \/ req[r].pc \in {"likeMe", "likeTarget"} /\ req[r].matched
           \/ req[r].pc \in {"chatFind", "chatCreate"}

\* One request at a time and without failures, what a like has read in
\* likedBySomeone still holds, and two users who find each other in both arrays
\* have their chat, or the request that makes it is on its way.
MatchedInv ==
    ~overlapped /\ ~aborted =>
        /\ \A r \in Request : req[r].pc \in {"likeMe", "likeTarget"} =>
              (req[r].matched <=> likedBySomeone[req[r].me][req[r].target] > 0)
        /\ \A u, v \in User : likedByMe[u][v] > 0 /\ likedBySomeone[u][v] > 0 =>
              chats[{u, v}] = 1 \/ Matching(u, v)

\* A step of the request at work that writes no chat.
LEMMA SingleQuiet ==
    ASSUME SingleInv, UNCHANGED <<overlapped, chats>>, NEW r \in Request, r \in Active,
           \A q \in Request : q # r => req'[q] = req[q],
           req'[r].pc = "chatCreate" => chats[{req'[r].me, req'[r].target}] = 0
    PROVE  SingleInv'
<1>1. Active' \subseteq Active
  BY DEF Active
<1> QED BY <1>1 DEF SingleInv, Of

\* Every step of one request at a time keeps the chats single.
LEMMA SingleStep == CoreType /\ WorkInv /\ SingleInv /\ [Next]_vars => SingleInv'
<1> SUFFICES ASSUME CoreType, DocType, SingleInv, [Next]_vars, ~overlapped' PROVE SingleInv'
  BY DEF WorkInv, SingleInv
<1> USE DEF docs, history
<1>1. ASSUME NEW r \in Request, Send(r) PROVE SingleInv'
  <2>1. ~overlapped /\ Active = {} /\ chats' = chats
    BY <1>1 DEF Send
  <2>2. req'[r].pc # "chatCreate" /\ \A q \in Request : q # r => req'[q] = req[q]
    BY <1>1, KindsAssumption DEF Send, FirstStep, CoreType
  <2>3. Active' \subseteq {r} /\ \A q \in Request : q # r => req[q].pc # "chatCreate"
    BY <2>1, <2>2 DEF Active
  <2> QED BY <2>1, <2>2, <2>3 DEF SingleInv
<1>2. ASSUME NEW r \in Request, Sent(r), UNCHANGED <<overlapped, chats>>, req' = Done(r)
      PROVE  SingleInv'
  <2>1. req'[r].pc = "done" /\ \A q \in Request : q # r => req'[q] = req[q]
    BY <1>2, Ends DEF Finished
  <2> QED BY <1>2, <2>1, SingleQuiet DEF Active, Sent
<1>3. ASSUME NEW r \in Request, Sent(r), UNCHANGED <<overlapped, chats>>,
             NEW label \in {"check", "likeTarget", "chatFind"}, req' = Goto(r, label)
      PROVE  SingleInv'
  <2>1. req'[r].pc = label /\ \A q \in Request : q # r => req'[q] = req[q]
    BY <1>3, Moves
  <2> QED BY <1>3, <2>1, SingleQuiet DEF Active, Sent
<1>4. ASSUME NEW r \in Request, LikeRefused(r) \/ ChatExists(r) \/ Unlike(r) \/ Abort(r)
      PROVE  SingleInv'
  BY <1>4, <1>2 DEF LikeRefused, ChatExists, Unlike, Abort, Reply, Sent, Active
<1>5. ASSUME NEW r \in Request, LikeAccepted(r) \/ LikeMe(r) PROVE SingleInv'
  BY <1>5, <1>3 DEF LikeAccepted, LikeMe, Sent
<1>6. ASSUME NEW r \in Request, LikeTarget(r) PROVE SingleInv'
  BY <1>6, <1>2, <1>3 DEF LikeTarget, Sent
<1>7. ASSUME NEW r \in Request, Check(r) PROVE SingleInv'
  <2>1. Sent(r) /\ UNCHANGED <<overlapped, chats>>
    BY <1>7 DEF Check, Sent
  <2>2. DOMAIN req = Request /\ DOMAIN req[r] = Fields
    BY <2>1, AtWork DEF CoreType
  <2>3. req'[r].pc = "likeMe" /\ \A q \in Request : q # r => req'[q] = req[q]
    BY <1>7, <2>2 DEF Check, Fields
  <2> QED BY <2>1, <2>3, SingleQuiet DEF Active, Sent
<1>8. ASSUME NEW r \in Request, ChatMissing(r) PROVE SingleInv'
  <2>1. /\ Sent(r) /\ UNCHANGED <<overlapped, chats>> /\ req' = Goto(r, "chatCreate")
        /\ chats[{req[r].me, req[r].target}] = 0
    BY <1>8 DEF ChatMissing, Sent
  <2> QED BY <2>1, Moves, SingleQuiet DEF Active, Sent
<1>9. ASSUME NEW r \in Request, ChatCreate(r) PROVE SingleInv'
  <2>1. /\ Sent(r) /\ r \in Active /\ ~overlapped /\ req[r].pc = "chatCreate"
        /\ req' = Done(r)
    BY <1>9 DEF ChatCreate, Reply, Sent, Active
  <2>2. PICK p \in Pair : p = Of(r)
    <3>1. Of(r) \in Pair
      BY <2>1, AtWork DEF Of, Pair
    <3> QED BY <3>1
  <2>3. chats' = [chats EXCEPT ![p] = chats[p] + 1]
    BY <1>9, <2>2 DEF ChatCreate, Of
  <2>4. chats[p] = 0
    BY <2>1, <2>2 DEF SingleInv
  <2>5. \A q \in Pair : chats'[q] <= 1
    BY <2>1, <2>3, <2>4 DEF SingleInv, DocType
  <2>6. Active' = {}
    BY <2>1, Ends DEF SingleInv, Active, Finished
  <2> QED BY <2>5, <2>6 DEF SingleInv, Active
<1>10. ASSUME NEW r \in Request, RewindStep(r) PROVE SingleInv'
  <2>1. Sent(r) /\ UNCHANGED <<overlapped, chats>>
    BY <1>10 DEF RewindStep, RewindRead, RewindSave, RewindConflict, Sent
  <2>2. CASE req' = Done(r)
    BY <2>1, <2>2, <1>2
  <2>3. CASE RewindRead(r) /\ req' # Done(r)
    <3>1. DOMAIN req = Request /\ DOMAIN req[r] = Fields
      BY <2>1, AtWork DEF CoreType
    <3>2. req'[r].pc = "rewindSave" /\ \A q \in Request : q # r => req'[q] = req[q]
      BY <2>3, <3>1 DEF RewindRead, Fields
    <3> QED BY <2>1, <3>2, SingleQuiet DEF Active, Sent
  <2> QED BY <2>2, <2>3, <1>10 DEF RewindStep, RewindSave, RewindConflict
<1>11. ASSUME NEW b \in background, Land(b) \/ LoseBackground(b) PROVE SingleInv'
  <2>1. UNCHANGED <<overlapped, chats, req>>
    BY <1>11 DEF Land, UnlikeMe, UnlikeTarget, Notify, LoseBackground
  <2> QED BY <2>1 DEF SingleInv, Active, Of
<1>12. CASE UNCHANGED vars
  BY <1>12 DEF vars, SingleInv, Active, Of
<1> QED
  BY <1>1, <1>4, <1>5, <1>6, <1>7, <1>8, <1>9, <1>10, <1>11, <1>12
  DEF Next, LikeStep, ChatStep

\* So it always holds.
LEMMA SingleHolds == Spec => []SingleInv
<1>1. Init => SingleInv
  BY DEF Init, SingleInv, Active, Idle
<1> QED BY <1>1, SingleStep, WorkHolds, CoreTypeCorrect, PTL DEF Spec

\* A step of the only request at work, standing at none of the steps that lead
\* to a chat, leaves the pairs that have one.
LEMMA MatchedQuiet ==
    ASSUME MatchedInv, SingleInv, ~overlapped, ~aborted,
           UNCHANGED <<likedByMe, likedBySomeone, chats>>, NEW r \in Request, r \in Active,
           req[r].pc \notin {"likeMe", "likeTarget", "chatFind", "chatCreate"},
           \A q \in Request : q # r => req'[q] = req[q],
           req'[r].pc \in {"likeMe", "likeTarget"} =>
               (req'[r].matched <=> likedBySomeone[req'[r].me][req'[r].target] > 0)
    PROVE  MatchedInv'
<1>1. \A q \in Request : q # r =>
         req[q].pc \notin {"likeMe", "likeTarget", "chatFind", "chatCreate"}
  BY DEF SingleInv, Active
<1>2. \A u, v \in User : ~Matching(u, v)
  BY <1>1 DEF Matching
<1> QED BY <1>1, <1>2 DEF MatchedInv

\* Every step of one request at a time keeps it.
LEMMA MatchedStep ==
    CoreType /\ CoreType' /\ WorkInv /\ WorkInv' /\ SingleInv /\ AgreeInv /\ MatchedInv
        /\ [Next]_vars => MatchedInv'
<1> SUFFICES ASSUME CoreType, CoreType', DocType, DocType', KindInv, SingleInv, AgreeInv,
                    MatchedInv, [Next]_vars, ~overlapped', ~aborted'
             PROVE  MatchedInv'
  BY DEF WorkInv, MatchedInv
<1> USE DEF docs, history
<1>1. ASSUME NEW r \in Request, Send(r) PROVE MatchedInv'
  <2>1. /\ ~overlapped /\ ~aborted /\ Active = {}
        /\ UNCHANGED <<likedByMe, likedBySomeone, chats>>
    BY <1>1 DEF Send
  <2>2. /\ req'[r].pc \notin {"likeMe", "likeTarget"}
        /\ \A q \in Request : q # r => req'[q] = req[q]
    BY <1>1, KindsAssumption DEF Send, FirstStep, CoreType
  <2>3. \A q \in Request : req[q].pc \in {"idle", "done"}
    BY <2>1 DEF Active
  <2>4. \A u, v \in User : ~Matching(u, v)
    BY <2>3 DEF Matching
  <2> QED BY <2>1, <2>2, <2>3, <2>4 DEF MatchedInv
<1>2. ASSUME NEW r \in Request, LikeRefused(r) \/ Unlike(r) PROVE MatchedInv'
  <2>1. /\ Sent(r) /\ ~overlapped /\ ~aborted /\ req' = Done(r)
        /\ UNCHANGED <<likedByMe, likedBySomeone, chats>> /\ req[r].pc \in {"gate", "unlike"}
    BY <1>2 DEF LikeRefused, Unlike, Sent
  <2>2. req'[r].pc = "done" /\ \A q \in Request : q # r => req'[q] = req[q]
    BY <2>1, Ends DEF Finished
  <2> QED BY <2>1, <2>2, MatchedQuiet DEF Active
<1>3. ASSUME NEW r \in Request, LikeAccepted(r) PROVE MatchedInv'
  <2>1. /\ Sent(r) /\ ~overlapped /\ ~aborted /\ req' = Goto(r, "check")
        /\ UNCHANGED <<likedByMe, likedBySomeone, chats>> /\ req[r].pc = "gate"
    BY <1>3 DEF LikeAccepted, Sent
  <2>2. req'[r].pc = "check" /\ \A q \in Request : q # r => req'[q] = req[q]
    BY <2>1, Moves
  <2> QED BY <2>1, <2>2, MatchedQuiet DEF Active
<1>4. ASSUME NEW r \in Request, Check(r) PROVE MatchedInv'
  <2>1. /\ Sent(r) /\ ~overlapped /\ ~aborted /\ req[r].pc = "check"
        /\ UNCHANGED <<likedByMe, likedBySomeone, chats>>
    BY <1>4 DEF Check, Sent
  <2>2. DOMAIN req = Request /\ DOMAIN req[r] = Fields
    BY <2>1, AtWork DEF CoreType
  <2>3. /\ req'[r].me = req[r].me /\ req'[r].target = req[r].target
        /\ req'[r].matched = (likedBySomeone[req[r].me][req[r].target] > 0)
        /\ \A q \in Request : q # r => req'[q] = req[q]
    BY <1>4, <2>2 DEF Check, Fields
  <2> QED BY <2>1, <2>3, MatchedQuiet DEF Active
<1>5. ASSUME NEW r \in Request, LikeMe(r) PROVE MatchedInv'
  <2>1. /\ Sent(r) /\ ~overlapped /\ ~aborted /\ req[r].pc = "likeMe"
        /\ req' = Goto(r, "likeTarget") /\ UNCHANGED <<likedBySomeone, chats>>
        /\ likedByMe' = Plus(likedByMe, req[r].me, req[r].target)
    BY <1>5 DEF LikeMe, Sent
  <2>2. PICK me \in User, target \in User : me = req[r].me /\ target = req[r].target
    BY <2>1, AtWork
  <2>3. /\ req'[r].pc = "likeTarget" /\ req'[r].me = me /\ req'[r].target = target
        /\ req'[r].matched = req[r].matched
        /\ \A q \in Request : q # r => req'[q] = req[q]
    BY <2>1, <2>2, Moves
  <2>4. \A u, v \in User : ~(u = me /\ v = target) => likedByMe'[u][v] = likedByMe[u][v]
    <3>1. likedByMe' = Plus(likedByMe, me, target) /\ likedByMe \in [User -> [User -> Nat]]
      BY <2>1, <2>2 DEF DocType
    <3> QED BY <3>1 DEF Plus
  <2>5. req[r].matched <=> likedBySomeone[me][target] > 0
    BY <2>1, <2>2 DEF MatchedInv
  <2>6. \A u, v \in User : Matching(u, v) => Matching(u, v)'
    BY <2>1, <2>2, <2>3 DEF Matching, Of
  <2>7. likedBySomeone[me][target] > 0 => Matching(me, target)'
    BY <2>3, <2>5 DEF Matching, Of
  <2>8. \A q \in Request : req'[q].pc \in {"likeMe", "likeTarget"} =>
           (req'[q].matched <=> likedBySomeone[req'[q].me][req'[q].target] > 0)
    BY <2>1, <2>3, <2>5 DEF MatchedInv
  <2>9. ASSUME NEW u \in User, NEW v \in User, likedByMe'[u][v] > 0, likedBySomeone'[u][v] > 0
        PROVE  chats'[{u, v}] = 1 \/ Matching(u, v)'
    <3>1. CASE u = me /\ v = target
      BY <2>1, <2>7, <2>9, <3>1
    <3>2. CASE ~(u = me /\ v = target)
      <4>1. likedByMe[u][v] > 0 /\ likedBySomeone[u][v] > 0
        BY <2>1, <2>4, <2>9, <3>2
      <4>2. chats[{u, v}] = 1 \/ Matching(u, v)
        BY <2>1, <4>1 DEF MatchedInv
      <4> QED BY <2>1, <2>6, <4>2
    <3> QED BY <3>1, <3>2
  <2>10. \A u, v \in User : likedByMe'[u][v] > 0 /\ likedBySomeone'[u][v] > 0 =>
            chats'[{u, v}] = 1 \/ Matching(u, v)'
    BY <2>9
  <2>11. \A q \in Request : req'[q].pc \in {"likeMe", "likeTarget"} =>
            (req'[q].matched <=> likedBySomeone'[req'[q].me][req'[q].target] > 0)
    BY <2>1, <2>8
  <2> QED BY <2>10, <2>11 DEF MatchedInv
<1>6. ASSUME NEW r \in Request, LikeTarget(r) PROVE MatchedInv'
  <2>1. /\ Sent(r) /\ r \in Active /\ ~overlapped /\ ~aborted /\ req[r].pc = "likeTarget"
        /\ UNCHANGED <<likedByMe, chats>>
        /\ likedBySomeone' = Plus(likedBySomeone, req[r].target, req[r].me)
        /\ \/ req[r].matched /\ req' = Goto(r, "chatFind")
           \/ ~req[r].matched /\ req' = Done(r)
    BY <1>6 DEF LikeTarget, Sent, Active
  <2>2. PICK me \in User, target \in User : me = req[r].me /\ target = req[r].target
    BY <2>1, AtWork
  <2>3. me # target
    BY <2>1, <2>2 DEF KindInv
  <2>4. \A u, v \in User :
           ~(u = target /\ v = me) => likedBySomeone'[u][v] = likedBySomeone[u][v]
    <3>1. /\ likedBySomeone' = Plus(likedBySomeone, target, me)
          /\ likedBySomeone \in [User -> [User -> Nat]]
      BY <2>1, <2>2 DEF CoreType
    <3> QED BY <3>1 DEF Plus
  <2>5. \A q \in Request : q # r => /\ req'[q] = req[q]
                                    /\ req[q].pc \in {"idle", "done"}
    BY <2>1, Moves, Ends DEF SingleInv, Active
  <2>6. req'[r].pc \notin {"likeMe", "likeTarget"}
    BY <2>1, Moves, Ends DEF Finished
  <2>7. req[r].matched <=> likedBySomeone[me][target] > 0
    BY <2>1, <2>2 DEF MatchedInv
  <2>8. req[r].matched => Matching(me, target)' /\ Matching(target, me)'
    BY <2>1, <2>2, Moves DEF Matching, Of
  \* Whoever the other has liked before is in the array that was read.
  <2>9. likedByMe[target][me] > 0 => req[r].matched
    <3>1. PendingUnlikes = {} /\ Balanced(target, me)
      BY <2>1 DEF AgreeInv, PassInv
    <3>2. HalfLiked(target, me) = {}
      BY <2>2, <2>3, <2>5 DEF HalfLiked
    <3>3. Cardinality(HalfLiked(target, me)) = 0
      BY <3>2, FS_EmptySet
    <3> QED BY <3>1, <3>3, <2>7 DEF Balanced, CoreType
  <2>10. ASSUME NEW u \in User, NEW v \in User, likedByMe'[u][v] > 0, likedBySomeone'[u][v] > 0
         PROVE  chats'[{u, v}] = 1 \/ Matching(u, v)'
    <3>1. CASE u = target /\ v = me
      BY <2>1, <2>8, <2>9, <2>10, <3>1
    <3>2. CASE ~(u = target /\ v = me)
      <4>1. chats[{u, v}] = 1 \/ Matching(u, v)
        BY <2>1, <2>4, <2>10, <3>2 DEF MatchedInv
      <4>2. Matching(u, v) => req[r].matched /\ {u, v} = {me, target}
        BY <2>1, <2>2, <2>5 DEF Matching, Of
      <4>3. Matching(u, v) => Matching(u, v)'
        BY <2>8, <4>2 DEF Matching
      <4> QED BY <2>1, <4>1, <4>3
    <3> QED BY <3>1, <3>2
  <2> QED BY <2>5, <2>6, <2>10 DEF MatchedInv
<1>7. ASSUME NEW r \in Request, ChatExists(r) \/ ChatCreate(r) PROVE MatchedInv'
  <2>1. /\ Sent(r) /\ r \in Active /\ ~overlapped /\ ~aborted /\ req' = Done(r)
        /\ UNCHANGED <<likedByMe, likedBySomeone>>
        /\ req[r].pc \in {"chatFind", "chatCreate"}
    BY <1>7 DEF ChatExists, ChatCreate, Reply, Sent, Active
  <2>2. PICK p \in Pair : p = Of(r)
    <3>1. Of(r) \in Pair
      BY <2>1, AtWork DEF Of, Pair
    <3> QED BY <3>1
  <2>3. chats'[p] = 1 /\ \A q \in Pair : q # p => chats'[q] = chats[q]
    <3>1. CASE ChatExists(r)
      <4>1. chats[p] > 0 /\ chats' = chats
        BY <2>2, <3>1 DEF ChatExists, Of
      <4>2. chats[p] <= 1 /\ chats[p] \in Nat
        BY <2>1 DEF SingleInv, DocType
      <4> QED BY <4>1, <4>2
    <3>2. CASE ChatCreate(r)
      <4>1. chats' = [chats EXCEPT ![p] = chats[p] + 1]
        BY <2>2, <3>2 DEF ChatCreate, Of
      <4>2. chats[p] = 0
        BY <2>1, <2>2, <3>2 DEF SingleInv, ChatCreate
      <4> QED BY <4>1, <4>2 DEF DocType
    <3> QED BY <3>1, <3>2, <1>7
  <2>4. \A q \in Request : q # r => req'[q] = req[q] /\ req[q].pc \in {"idle", "done"}
    BY <2>1, Ends DEF SingleInv, Active
  <2>5. \A q \in Request : req'[q].pc \notin {"likeMe", "likeTarget"}
    BY <2>1, <2>4, Ends DEF Finished
  <2>6. \A u, v \in User : Matching(u, v) => {u, v} = p
    BY <2>2, <2>4 DEF Matching
  <2>7. \A u, v \in User : {u, v} \in Pair
    BY DEF Pair
  <2>8. \A u, v \in User : chats[{u, v}] = 1 \/ Matching(u, v) => chats'[{u, v}] = 1
    <3> SUFFICES ASSUME NEW u \in User, NEW v \in User, chats[{u, v}] = 1 \/ Matching(u, v)
                 PROVE  chats'[{u, v}] = 1
      OBVIOUS
    <3>1. CASE {u, v} = p
      BY <2>3, <3>1
    <3>2. CASE {u, v} # p
      BY <2>3, <2>6, <2>7, <3>2
    <3> QED BY <3>1, <3>2
  <2> QED BY <2>1, <2>5, <2>8 DEF MatchedInv
<1>8. ASSUME NEW r \in Request, ChatMissing(r) PROVE MatchedInv'
  <2>1. /\ Sent(r) /\ ~overlapped /\ ~aborted /\ req' = Goto(r, "chatCreate")
        /\ UNCHANGED <<likedByMe, likedBySomeone, chats>> /\ req[r].pc = "chatFind"
    BY <1>8 DEF ChatMissing, Sent
  <2>2. /\ req'[r].pc = "chatCreate"
        /\ req'[r].me = req[r].me /\ req'[r].target = req[r].target
        /\ \A q \in Request : q # r => req'[q] = req[q]
    BY <2>1, Moves
  <2>3. \A u, v \in User : Matching(u, v) => Matching(u, v)'
    BY <2>1, <2>2 DEF Matching, Of
  <2> QED BY <2>1, <2>2, <2>3 DEF MatchedInv
<1>9. ASSUME NEW r \in Request, RewindStep(r) PROVE MatchedInv'
  <2>1. /\ Sent(r) /\ ~overlapped /\ ~aborted /\ req[r].pc \in {"rewindRead", "rewindSave"}
        /\ UNCHANGED <<likedByMe, likedBySomeone, chats>>
    BY <1>9 DEF RewindStep, RewindRead, RewindSave, RewindConflict, Sent
  <2>2. CASE req' = Done(r)
    <3>1. req'[r].pc = "done" /\ \A q \in Request : q # r => req'[q] = req[q]
      BY <2>2, Ends DEF Finished
    <3> QED BY <2>1, <3>1, MatchedQuiet DEF Active
  <2>3. CASE RewindRead(r) /\ req' # Done(r)
    <3>1. DOMAIN req = Request /\ DOMAIN req[r] = Fields
      BY <2>1, AtWork DEF CoreType
    <3>2. req'[r].pc = "rewindSave" /\ \A q \in Request : q # r => req'[q] = req[q]
      BY <2>3, <3>1 DEF RewindRead, Fields
    <3> QED BY <2>1, <3>2, MatchedQuiet DEF Active
  <2> QED BY <2>2, <2>3, <1>9 DEF RewindStep, RewindSave, RewindConflict
<1>10. ASSUME NEW r \in Request, Abort(r) PROVE MatchedInv'
  BY <1>10 DEF Abort
\* The updates of a pass find nothing at work, and only empty arrays.
<1>11. ASSUME NEW b \in background, UnlikeMe(b) \/ UnlikeTarget(b) PROVE MatchedInv'
  <2>1. ~overlapped /\ ~aborted /\ UNCHANGED <<req, chats>> /\ b \in PendingUnlikes
    BY <1>11 DEF UnlikeMe, UnlikeTarget, PendingUnlikes
  <2>2. Active = {}
    BY <2>1 DEF AgreeInv, PassInv
  <2>3. \A q \in Request : req'[q].pc \notin {"likeMe", "likeTarget", "chatFind", "chatCreate"}
    BY <2>1, <2>2 DEF Active
  <2>4. \A u, v \in User : /\ likedByMe'[u][v] > 0 => likedByMe[u][v] > 0
                           /\ likedBySomeone'[u][v] > 0 => likedBySomeone[u][v] > 0
    <3>1. CASE UnlikeMe(b)
      BY <3>1 DEF UnlikeMe, DocType
    <3>2. CASE UnlikeTarget(b)
      BY <3>2 DEF UnlikeTarget, CoreType
    <3> QED BY <3>1, <3>2, <1>11
  <2>5. \A u, v \in User : ~Matching(u, v)
    BY <2>1, <2>3 DEF Matching
  <2> QED BY <2>1, <2>3, <2>4, <2>5 DEF MatchedInv
<1>12. ASSUME NEW b \in background, Notify(b) PROVE MatchedInv'
  BY <1>12 DEF Notify, MatchedInv, Matching, Of
<1>13. ASSUME NEW b \in background, LoseBackground(b) PROVE MatchedInv'
  BY <1>13 DEF LoseBackground
<1>14. CASE UNCHANGED vars
  BY <1>14 DEF vars, MatchedInv, Matching, Of
<1> QED
  BY <1>1, <1>2, <1>3, <1>4, <1>5, <1>6, <1>7, <1>8, <1>9, <1>10, <1>11, <1>12, <1>13, <1>14
  DEF Next, LikeStep, ChatStep, Land

\* One request at a time no two users ever have two chats, failures included,
\* and without a failure two users who like each other have exactly one.
THEOREM OneChat == Spec => []OneChatPerMatch
<1>1. Init => MatchedInv
  BY DEF Init, MatchedInv, Idle, Count0
<1>2. SingleInv /\ MatchedInv => OneChatPerMatch
  <2> SUFFICES ASSUME SingleInv, MatchedInv, ~overlapped
               PROVE  /\ \A p \in Pair : chats[p] <= 1
                      /\ Quiescent /\ ~aborted =>
                            \A u \in User : \A v \in LikedUsers(u) \cap UsersWhomLikedMe(u) :
                                chats[{u, v}] = 1
    BY DEF OneChatPerMatch
  <2>1. \A p \in Pair : chats[p] <= 1
    BY DEF SingleInv
  <2>2. ASSUME Quiescent, ~aborted, NEW u \in User,
               NEW v \in LikedUsers(u) \cap UsersWhomLikedMe(u)
        PROVE  chats[{u, v}] = 1
    <3>1. v \in User /\ likedByMe[u][v] > 0 /\ likedBySomeone[u][v] > 0
      BY DEF LikedUsers, UsersWhomLikedMe
    <3>2. ~Matching(u, v)
      BY <2>2 DEF Quiescent, Active, Matching
    <3> QED BY <2>2, <3>1, <3>2 DEF MatchedInv
  <2> QED BY <2>1, <2>2
<1>3. Spec => []MatchedInv
  BY <1>1, MatchedStep, SingleHolds, AgreeHolds, WorkHolds, CoreTypeCorrect, PTL DEF Spec
<1> QED BY <1>2, <1>3, SingleHolds, PTL

-----------------------------------------------------------------------------
(* Numbers and the elements that $pull leaves.                             *)

\* A set of numbers that is not empty has a least one.
LEMMA LeastNatural ==
    ASSUME NEW T, T \subseteq Nat, T # {}
    PROVE  \E m \in T : \A k \in T : m <= k
<1> DEFINE Below == OpToRel(<, Nat)
<1>1. \A m, n \in Nat : m < n => <<m, n>> \in Below
  BY DEF OpToRel
<1>2. IsWellFoundedOn(Below, Nat)
  BY NatLessThanWellFounded
<1> HIDE DEF Below
<1>3. PICK m \in T : \A y \in T : <<y, m>> \notin Below
  BY <1>2, WFMin, Zenon
<1>4. ASSUME NEW k \in T PROVE m <= k
  <2>1. m \in Nat /\ k \in Nat
    OBVIOUS
  <2>2. ~(k < m)
    BY <1>1, <1>3, <2>1, Zenon
  <2> QED BY <2>1, <2>2, SMT
<1> QED BY <1>4

\* A bounded set of numbers that is not empty has a greatest one.
LEMMA GreatestNumber ==
    ASSUME NEW n \in Nat, NEW I \in SUBSET (1..n), I # {}
    PROVE  \E m \in I : \A k \in I : k <= m
<1> DEFINE Bounds == {m \in Nat : \A k \in I : k <= m}
<1>1. n \in Bounds /\ Bounds \subseteq Nat
  OBVIOUS
<1>2. PICK m \in Bounds : \A b \in Bounds : m <= b
  <2> HIDE DEF Bounds
  <2> QED BY <1>1, LeastNatural
<1>3. m \in I
  <2> SUFFICES ASSUME m \notin I PROVE FALSE
    OBVIOUS
  <2>1. \A k \in I : k \in Nat \ {0} /\ k <= m /\ k # m
    BY <1>2
  <2>2. m \in Nat \ {0}
    <3>1. PICK k : k \in I
      OBVIOUS
    <3>2. m \in Nat /\ k \in Nat \ {0} /\ k <= m
      BY <1>2, <2>1, <3>1
    <3> QED BY ONLY <3>2
  <2>3. m - 1 \in Bounds
    BY <2>1, <2>2
  <2>4. m <= m - 1
    BY <1>2, <2>3
  <2> QED BY <2>2, <2>4
<1> QED BY <1>2, <1>3

\* The last place of a set of places in an array is in the set.
LEMMA LastIsIn ==
    ASSUME NEW n \in Nat, NEW I \in SUBSET (1..n), I # {}
    PROVE  Max(I) \in I
<1>1. \E x \in I : \A y \in I : x >= y
  <2>1. PICK m \in I : \A k \in I : k <= m
    BY GreatestNumber
  <2>2. \A k \in I : m >= k
    BY <2>1
  <2> QED BY <2>2
<1> QED BY <1>1 DEF Max

\* Induction on the size of a set of places.
LEMMA PlacesInduction ==
    ASSUME NEW D, IsFiniteSet(D), NEW P,
           ASSUME NEW s \in SUBSET D, \A x \in s : s \ {x} \in P PROVE s \in P
    PROVE  SUBSET D \subseteq P
<1> SUFFICES ASSUME NEW t \in SUBSET D, t \notin P PROVE FALSE
  OBVIOUS
<1> DEFINE Bad == (SUBSET D) \ P
           Sizes == {Cardinality(s) : s \in Bad}
<1>1. \A s \in SUBSET D : IsFiniteSet(s) /\ Cardinality(s) \in Nat
  BY FS_Subset, FS_CardinalityType
<1>2. Sizes \subseteq Nat /\ Sizes # {}
  BY <1>1
<1>3. PICK n \in Sizes : \A k \in Sizes : n <= k
  <2> HIDE DEF Sizes
  <2> QED BY <1>2, LeastNatural
<1>4. PICK s \in Bad : n = Cardinality(s)
  BY <1>3
<1>5. ASSUME NEW x \in s PROVE s \ {x} \in P
  <2>1. Cardinality(s \ {x}) = n - 1 /\ n \in Nat
    BY <1>1, <1>4, FS_RemoveElement
  <2>2. s \ {x} \in Bad => n <= Cardinality(s \ {x})
    BY <1>3
  <2> QED BY <1>4, <2>1, <2>2
<1>6. s \in SUBSET D /\ s \notin P
  BY <1>4
<1> HIDE DEF Bad, Sizes
<1> QED BY <1>5, <1>6

\* The fold of Without, over the places of the array.
RestStep(g, s, v, I) ==
    IF I = {} THEN <<>>
    ELSE IF s[Max(I)] = v THEN g[I \ {Max(I)}] ELSE Append(g[I \ {Max(I)}], s[Max(I)])
Rests(g, s, v) == g = [I \in SUBSET (DOMAIN s) |-> RestStep(g, s, v, I)]

\* What the fold of the community modules is, in these terms.
LEMMA WithoutIs ==
    ASSUME NEW s, NEW v
    PROVE  Without(s, v) = (CHOOSE g : Rests(g, s, v))[DOMAIN s]
BY DEF Without, FoldLeft, MapThenFoldSet, Rests, RestStep

\* The recursion of the fold has a solution.
LEMMA RestsExist ==
    ASSUME NEW s, NEW n \in Nat, DOMAIN s = 1..n, NEW v
    PROVE  \E g : Rests(g, s, v)
<1> DEFINE D == 1..n
           Upto(g, k) == \A I \in SUBSET D : Cardinality(I) <= k => g[I] = RestStep(g, s, v, I)
           Solved == {k \in Nat : \E g : Upto(g, k)}
<1>0. IsFiniteSet(D)
  BY FS_Interval
<1>1. ASSUME NEW I \in SUBSET D
      PROVE  /\ IsFiniteSet(I) /\ Cardinality(I) \in Nat
             /\ I # {} => Cardinality(I \ {Max(I)}) = Cardinality(I) - 1
             /\ Cardinality(I) = 0 => I = {}
  <2>1. I # {} => Max(I) \in I
    BY LastIsIn
  <2> HIDE DEF D
  <2> QED BY <1>0, <2>1, FS_Subset, FS_CardinalityType, FS_RemoveElement, FS_EmptySet
<1> HIDE DEF D
<1>2. 0 \in Solved
  <2> DEFINE g == [I \in SUBSET D |-> <<>>]
  <2>1. ASSUME NEW I \in SUBSET D, Cardinality(I) <= 0 PROVE g[I] = RestStep(g, s, v, I)
    <3>1. Cardinality(I) \in Nat /\ Cardinality(I) <= 0
      BY <1>1, <2>1
    <3>2. Cardinality(I) = 0
      BY ONLY <3>1
    <3>3. I = {}
      BY <1>1, <3>2
    <3> QED BY <3>3 DEF RestStep
  <2>2. Upto(g, 0)
    BY <2>1
  <2> HIDE DEF g, Upto
  <2> QED BY <2>2
<1>3. ASSUME NEW k \in Solved PROVE k + 1 \in Solved
  <2>1. k \in Nat
    OBVIOUS
  <2>2. PICK g : Upto(g, k)
    OBVIOUS
  <2> DEFINE h == [I \in SUBSET D |-> IF Cardinality(I) <= k THEN g[I] ELSE RestStep(g, s, v, I)]
  <2>3. ASSUME NEW I \in SUBSET D, Cardinality(I) <= k + 1 PROVE h[I] = RestStep(h, s, v, I)
    <3>1. h[I] = RestStep(g, s, v, I)
      BY <2>2
    <3>2. I # {} => I \ {Max(I)} \in SUBSET D /\ Cardinality(I \ {Max(I)}) <= k
      BY <1>1, <2>1, <2>3
    <3>3. I # {} => h[I \ {Max(I)}] = g[I \ {Max(I)}]
      BY <3>2
    <3> HIDE DEF h, Upto
    <3> QED BY <3>1, <3>3 DEF RestStep
  <2>4. Upto(h, k + 1)
    <3> HIDE DEF h
    <3> QED BY <2>3
  <2> HIDE DEF h, Upto
  <2> QED BY <2>1, <2>4
<1>4. Nat \subseteq Solved
  <2> SUFFICES ASSUME Nat \ Solved # {} PROVE FALSE
    OBVIOUS
  <2> HIDE DEF Solved
  <2>1. PICK m \in Nat \ Solved : \A k \in Nat \ Solved : m <= k
    BY LeastNatural
  <2>2. m # 0 /\ m - 1 \in Nat
    BY <1>2, <2>1
  <2>3. m - 1 \in Solved
    <3>1. m \in Nat /\ ~(m <= m - 1)
      BY <2>1
    <3> QED BY <2>1, <2>2, <3>1
  <2>4. (m - 1) + 1 = m
    BY <2>2
  <2> QED BY <1>3, <2>1, <2>3, <2>4
<1>5. Cardinality(D) \in Nat /\ \A I \in SUBSET D : Cardinality(I) <= Cardinality(D)
  BY <1>0, FS_Subset, FS_CardinalityType
<1>6. PICK g : Upto(g, Cardinality(D))
  BY <1>4, <1>5
<1> DEFINE h == [I \in SUBSET D |-> g[I]]
<1>7. ASSUME NEW I \in SUBSET D PROVE h[I] = RestStep(h, s, v, I)
  <2>1. h[I] = RestStep(g, s, v, I)
    BY <1>5, <1>6
  <2>2. I # {} => h[I \ {Max(I)}] = g[I \ {Max(I)}]
    OBVIOUS
  <2> HIDE DEF h
  <2> QED BY <2>1, <2>2 DEF RestStep
<1>8. h = [I \in SUBSET D |-> RestStep(h, s, v, I)]
  <2>1. h = [I \in SUBSET D |-> h[I]]
    OBVIOUS
  <2> HIDE DEF h
  <2> QED BY <1>7, <2>1
<1>9. D = DOMAIN s
  BY DEF D
<1> HIDE DEF h
<1> QED BY <1>8, <1>9 DEF Rests

\* Where an array has a profile.
Places(s, w) == {i \in DOMAIN s : s[i] = w}

\* The places of an array are finitely many, whatever holds of them.
LEMMA PlacesFinite ==
    ASSUME NEW S, NEW s \in Seq(S), NEW I \in SUBSET (DOMAIN s)
    PROVE  IsFiniteSet(I) /\ Cardinality(I) \in Nat
<1>1. Len(s) \in Nat /\ DOMAIN s = 1..Len(s)
  OBVIOUS
<1>2. IsFiniteSet(DOMAIN s)
  BY <1>1, FS_Interval
<1> QED BY <1>2, FS_Subset, FS_CardinalityType

\* How often an array has a profile is a number.
LEMMA TimesPassedType ==
    ASSUME NEW S, NEW s \in Seq(S), NEW w
    PROVE  TimesPassed(s, w) \in Nat /\ TimesPassed(s, w) = Cardinality(Places(s, w))
BY PlacesFinite DEF TimesPassed, Places

\* One more pass is counted once, for the profile it is of.
LEMMA TimesPassedAppend ==
    ASSUME NEW S, NEW s \in Seq(S), NEW x \in S, NEW w
    PROVE  TimesPassed(Append(s, x), w) = TimesPassed(s, w) + (IF x = w THEN 1 ELSE 0)
<1> DEFINE n == Len(s)
<1>1. /\ n \in Nat /\ DOMAIN s = 1..n /\ DOMAIN Append(s, x) = 1..(n + 1)
      /\ \A i \in 1..n : Append(s, x)[i] = s[i]
      /\ Append(s, x)[n + 1] = x
  OBVIOUS
<1>2. Places(Append(s, x), w) = IF x = w THEN Places(s, w) \cup {n + 1} ELSE Places(s, w)
  BY <1>1 DEF Places
<1>3. n + 1 \notin Places(s, w) /\ IsFiniteSet(Places(s, w))
  BY <1>1, PlacesFinite DEF Places
<1>4. Cardinality(Places(s, w) \cup {n + 1}) = Cardinality(Places(s, w)) + 1
  BY <1>3, FS_AddElement
<1>5. Append(s, x) \in Seq(S)
  OBVIOUS
<1>6. /\ TimesPassed(s, w) = Cardinality(Places(s, w)) /\ TimesPassed(s, w) \in Nat
      /\ TimesPassed(Append(s, x), w) = Cardinality(Places(Append(s, x), w))
  BY <1>5, TimesPassedType
<1> QED BY <1>2, <1>4, <1>6

\* $pull leaves an array of some of its elements.
LEMMA WithoutType ==
    ASSUME NEW S, NEW s \in Seq(S), NEW v
    PROVE  /\ Without(s, v) \in Seq(S)
           /\ \A w \in S : TimesPassed(Without(s, v), w) <= TimesPassed(s, w)
<1> DEFINE n == Len(s)
<1>1. n \in Nat /\ DOMAIN s = 1..n /\ \A i \in 1..n : s[i] \in S
  OBVIOUS
<1> HIDE DEF n
<1>2. PICK g : Rests(g, s, v) /\ Without(s, v) = g[DOMAIN s]
  BY <1>1, RestsExist, WithoutIs
<1> DEFINE Kept(I) == /\ g[I] \in Seq(S)
                      /\ \A w \in S : TimesPassed(g[I], w) <= Cardinality(I \cap Places(s, w))
           Typed == {I \in SUBSET (1..n) : Kept(I)}
<1>3. ASSUME NEW I \in SUBSET (1..n), \A x \in I : I \ {x} \in Typed PROVE I \in Typed
  <2>1. g[I] = RestStep(g, s, v, I)
    BY <1>1, <1>2 DEF Rests
  <2>2. CASE I = {}
    <3>1. g[I] = <<>> /\ g[I] \in Seq(S)
      BY <2>1, <2>2 DEF RestStep
    <3>2. \A w \in S : TimesPassed(g[I], w) = 0 /\ Cardinality(I \cap Places(s, w)) = 0
      BY <2>2, <3>1, FS_EmptySet DEF TimesPassed
    <3>3. Kept(I)
      BY <3>1, <3>2
    <3> QED BY <3>3
  <2>3. CASE I # {}
    <3> DEFINE m == Max(I)
               J == I \ {m}
    <3>1. m \in I /\ s[m] \in S
      BY <1>1, <2>3, LastIsIn
    <3>2. J \in Typed
      BY <1>3, <3>1
    <3>3. Kept(J)
      BY <3>2
    <3>4. g[I] = IF s[m] = v THEN g[J] ELSE Append(g[J], s[m])
      BY <2>1, <2>3 DEF RestStep
    <3> HIDE DEF m, Typed
    <3>5. ASSUME NEW w \in S
          PROVE  Cardinality(I \cap Places(s, w))
                   = Cardinality(J \cap Places(s, w)) + (IF s[m] = w THEN 1 ELSE 0)
      <4>1. /\ I \cap Places(s, w) \subseteq DOMAIN s /\ J \cap Places(s, w) \subseteq DOMAIN s
            /\ m \in DOMAIN s
        BY <1>1, <3>1
      <4>2. IsFiniteSet(J \cap Places(s, w)) /\ Cardinality(J \cap Places(s, w)) \in Nat
        BY <4>1, PlacesFinite
      <4>3. m \notin J \cap Places(s, w)
        OBVIOUS
      <4>4. I \cap Places(s, w)
              = IF s[m] = w THEN (J \cap Places(s, w)) \cup {m} ELSE J \cap Places(s, w)
        BY <3>1, <4>1 DEF Places
      <4> HIDE DEF J
      <4>5. Cardinality((J \cap Places(s, w)) \cup {m}) = Cardinality(J \cap Places(s, w)) + 1
        BY <4>2, <4>3, FS_AddElement
      <4>6. CASE s[m] = w
        BY <4>4, <4>5, <4>6
      <4>7. CASE s[m] # w
        <5>1. Cardinality(I \cap Places(s, w)) = Cardinality(J \cap Places(s, w))
          BY <4>4, <4>7, Zenon
        <5>2. Cardinality(I \cap Places(s, w)) = Cardinality(J \cap Places(s, w)) + 0
          BY <4>2, <5>1
        <5> QED BY <4>7, <5>2
      <4> QED BY <4>6, <4>7
    <3>6. g[I] \in Seq(S)
      BY <3>1, <3>3, <3>4
    <3>7. ASSUME NEW w \in S PROVE TimesPassed(g[I], w) <= Cardinality(I \cap Places(s, w))
      <4>1. TimesPassed(g[J], w) \in Nat /\ TimesPassed(g[J], w) <= Cardinality(J \cap Places(s, w))
        BY <3>3, TimesPassedType
      <4>2. Cardinality(J \cap Places(s, w)) \in Nat
        BY <1>1, PlacesFinite
      <4>3. TimesPassed(Append(g[J], s[m]), w) = TimesPassed(g[J], w) + (IF s[m] = w THEN 1 ELSE 0)
        BY <3>1, <3>3, TimesPassedAppend
      <4> HIDE DEF J
      <4>4. CASE s[m] = v
        BY <3>4, <3>5, <4>1, <4>2, <4>4
      <4>5. CASE s[m] # v
        BY <3>4, <3>5, <4>1, <4>2, <4>3, <4>5
      <4> QED BY <4>4, <4>5
    <3> QED BY <3>6, <3>7 DEF Typed
  <2> QED BY <2>2, <2>3
<1>4. SUBSET (1..n) \subseteq Typed
  <2> HIDE DEF Typed
  <2>1. IsFiniteSet(1..n)
    BY <1>1, FS_Interval
  <2> DEFINE D == 1..n
  <2>2. \A I \in SUBSET D : (\A x \in I : I \ {x} \in Typed) => I \in Typed
    BY <1>3
  <2>3. IsFiniteSet(D)
    BY <2>1
  <2> HIDE DEF D
  <2>4. SUBSET D \subseteq Typed
    BY <2>2, <2>3, PlacesInduction
  <2> QED BY <2>4 DEF D
<1>5. Kept(DOMAIN s)
  BY <1>1, <1>4
<1>6. \A w \in S : DOMAIN s \cap Places(s, w) = Places(s, w)
  BY DEF Places
<1> QED BY <1>2, <1>5, <1>6, TimesPassedType

\* An array that is not empty is its front and its last.
LEMMA FrontAndLast ==
    ASSUME NEW S, NEW s \in Seq(S), s # <<>>
    PROVE  Front(s) \in Seq(S) /\ Last(s) \in S /\ s = Append(Front(s), Last(s))
BY EmptySeq DEF Front, Last

-----------------------------------------------------------------------------
(* The passes that stand.                                                  *)

\* An array of profiles that holds no pass a rewind of u has undone.
Backed(s, u) == s \in Seq(User) /\ \A v \in User : TimesPassed(s, v) <= standing[u][v]

\* A rewind that the version check of its save would let through.
Current(r) == req[r].pc = "rewindSave" /\ req[r].version = version[req[r].me]

\* The stored arrays are backed, and so is every copy that can still be saved.
StandingInv ==
    /\ standing \in [User -> [User -> Int]]
    /\ version \in [User -> Nat]
    /\ DOMAIN unLikedByMe = User
    /\ \A u \in User : Backed(unLikedByMe[u], u)
    /\ \A r \in Request : req[r].pc = "rewindSave" =>
          /\ req[r].version \in Nat /\ req[r].version <= version[req[r].me]
          /\ Current(r) => Backed(req[r].passes, req[r].me) /\ req[r].passes # <<>>

\* An array that was backed is backed by more passes, or by the same.
LEMMA StillBacked ==
    ASSUME NEW s, NEW u \in User, Backed(s, u),
           standing \in [User -> [User -> Int]], standing' \in [User -> [User -> Int]],
           \A v \in User : standing[u][v] <= standing'[u][v]
    PROVE  s \in Seq(User) /\ \A v \in User : TimesPassed(s, v) <= standing'[u][v]
<1>1. s \in Seq(User) /\ \A v \in User : TimesPassed(s, v) \in Nat
  BY TimesPassedType DEF Backed
<1>2. \A v \in User : standing[u][v] \in Int /\ standing'[u][v] \in Int
  OBVIOUS
<1> QED BY <1>1, <1>2 DEF Backed

\* A step that saves no rewind, and reads none, leaves the copies as they are.
LEMMA StandingStays ==
    ASSUME CoreType, StandingInv, NEW r \in Request,
           \A q \in Request : q # r => req'[q] = req[q],
           req'[r] = req[r] \/ req'[r].pc # "rewindSave",
           version' = version, standing' \in [User -> [User -> Int]],
           \A u, v \in User : standing[u][v] <= standing'[u][v],
           DOMAIN unLikedByMe' = User, \A u \in User : Backed(unLikedByMe[u], u)'
    PROVE  StandingInv'
<1>1. ASSUME NEW q \in Request, req'[q].pc = "rewindSave"
      PROVE  /\ req[q].pc = "rewindSave" /\ req'[q] = req[q] /\ req[q].me \in User
    BY <1>1, AtWork DEF Sent
<1>2. ASSUME NEW q \in Request, req'[q].pc = "rewindSave"
      PROVE  /\ req'[q].version \in Nat /\ req'[q].version <= version'[req'[q].me]
             /\ Current(q)' => Backed(req[q].passes, req[q].me)' /\ req'[q].passes # <<>>
  <2>1. req[q].pc = "rewindSave" /\ req'[q] = req[q] /\ req[q].me \in User
    BY <1>1, <1>2
  <2>2. req[q].version \in Nat /\ req[q].version <= version[req[q].me]
    BY <2>1 DEF StandingInv
  <2>3. ASSUME Current(q)' PROVE Backed(req[q].passes, req[q].me)' /\ req[q].passes # <<>>
    <3>1. Backed(req[q].passes, req[q].me) /\ req[q].passes # <<>>
      BY <2>1, <2>3 DEF Current, StandingInv
    <3>2. /\ req[q].passes \in Seq(User)
          /\ \A v \in User : TimesPassed(req[q].passes, v) <= standing'[req[q].me][v]
      BY <2>1, <3>1, StillBacked DEF StandingInv
    <3> QED BY <2>1, <3>1, <3>2 DEF Backed
  <2> QED BY <2>1, <2>2, <2>3
<1> QED BY <1>2 DEF StandingInv

\* A step of a request that writes neither passes nor versions.
LEMMA StandingQuiet ==
    ASSUME CoreType, StandingInv, NEW r \in Request,
           \A q \in Request : q # r => req'[q] = req[q],
           req'[r] = req[r] \/ req'[r].pc # "rewindSave",
           UNCHANGED <<version, standing, unLikedByMe>>
    PROVE  StandingInv'
<1>1. standing' \in [User -> [User -> Int]] /\ \A u, v \in User : standing[u][v] <= standing'[u][v]
  BY DEF StandingInv
<1>2. DOMAIN unLikedByMe' = User /\ \A u \in User : Backed(unLikedByMe[u], u)'
  BY DEF StandingInv, Backed
<1> QED BY <1>1, <1>2, StandingStays

\* Every step keeps the arrays within the passes that stand.
LEMMA StandingStep == CoreType /\ StandingInv /\ [Next]_vars => StandingInv'
<1> SUFFICES ASSUME CoreType, StandingInv, [Next]_vars PROVE StandingInv'
  OBVIOUS
<1> USE DEF docs, history
<1>1. ASSUME NEW r \in Request, Send(r) PROVE StandingInv'
  <2>1. req'[r].pc # "rewindSave" /\ \A q \in Request : q # r => req'[q] = req[q]
    BY <1>1, KindsAssumption DEF Send, FirstStep, CoreType
  <2>2. UNCHANGED <<version, standing, unLikedByMe>>
    BY <1>1 DEF Send
  <2> QED BY <2>1, <2>2, StandingQuiet
<1>2. ASSUME NEW r \in Request,
             \/ LikeRefused(r) \/ Abort(r) \/ Unlike(r) \/ ChatExists(r) \/ ChatCreate(r)
             \/ RewindConflict(r)
      PROVE  StandingInv'
  <2>1. UNCHANGED <<version, standing, unLikedByMe>> /\ req' = Done(r)
    BY <1>2 DEF LikeRefused, Abort, Unlike, ChatExists, ChatCreate, Reply, RewindConflict
  <2>2. req'[r].pc # "rewindSave" /\ \A q \in Request : q # r => req'[q] = req[q]
    BY <2>1, Ends DEF Finished
  <2> QED BY <2>1, <2>2, StandingQuiet
<1>3. ASSUME NEW r \in Request, LikeAccepted(r) \/ ChatMissing(r) PROVE StandingInv'
  <2>1. UNCHANGED <<version, standing, unLikedByMe>> /\ Sent(r)
    BY <1>3 DEF LikeAccepted, ChatMissing, Sent
  <2>2. req'[r].pc # "rewindSave" /\ \A q \in Request : q # r => req'[q] = req[q]
    BY <1>3, <2>1, Moves DEF LikeAccepted, ChatMissing
  <2> QED BY <2>1, <2>2, StandingQuiet
<1>4. ASSUME NEW r \in Request, Check(r) PROVE StandingInv'
  <2>1. UNCHANGED <<version, standing, unLikedByMe>> /\ Sent(r)
    BY <1>4 DEF Check, Sent
  <2>2. DOMAIN req = Request /\ DOMAIN req[r] = Fields
    BY <2>1, AtWork DEF CoreType
  <2>3. req'[r].pc = "likeMe" /\ \A q \in Request : q # r => req'[q] = req[q]
    BY <1>4, <2>2 DEF Check, Fields
  <2> QED BY <2>1, <2>3, StandingQuiet
<1>5. ASSUME NEW r \in Request, LikeMe(r) PROVE StandingInv'
  <2>1. /\ Sent(r) /\ UNCHANGED <<version, standing>> /\ req' = Goto(r, "likeTarget")
        /\ unLikedByMe' = [unLikedByMe EXCEPT ![req[r].me] =
                              Without(unLikedByMe[req[r].me], req[r].target)]
    BY <1>5 DEF LikeMe, Sent
  <2>2. req[r].me \in User /\ DOMAIN unLikedByMe' = User
    BY <2>1, AtWork DEF StandingInv
  <2>3. req'[r].pc # "rewindSave" /\ \A q \in Request : q # r => req'[q] = req[q]
    BY <2>1, Moves
  <2>4. standing' \in [User -> [User -> Int]] /\ \A u, v \in User : standing[u][v] <= standing'[u][v]
    BY <2>1 DEF StandingInv
  <2>5. ASSUME NEW u \in User PROVE Backed(unLikedByMe[u], u)'
    <3> DEFINE s == unLikedByMe[u]
    <3>1. s \in Seq(User) /\ \A v \in User : TimesPassed(s, v) <= standing[u][v]
      BY DEF StandingInv, Backed
    <3>2. CASE u # req[r].me
      <4>1. unLikedByMe'[u] = s
        BY <2>1, <2>2, <3>2 DEF StandingInv
      <4> QED BY <2>1, <3>1, <4>1 DEF Backed
    <3>3. CASE u = req[r].me
      <4> DEFINE rest == Without(s, req[r].target)
      <4>1. unLikedByMe'[u] = rest
        BY <2>1, <2>2, <3>3 DEF StandingInv
      <4>2. rest \in Seq(User) /\ \A v \in User : TimesPassed(rest, v) <= TimesPassed(s, v)
        BY <3>1, WithoutType
      <4>3. \A v \in User : /\ TimesPassed(rest, v) \in Nat /\ TimesPassed(s, v) \in Nat
                            /\ standing[u][v] \in Int
        BY <3>1, <4>2, TimesPassedType DEF StandingInv
      <4> HIDE DEF s, rest
      <4>4. \A v \in User : TimesPassed(rest, v) <= standing[u][v]
        BY <3>1, <4>2, <4>3
      <4> QED BY <2>1, <4>1, <4>2, <4>4 DEF Backed
    <3> QED BY <3>2, <3>3
  <2> QED BY <2>1, <2>2, <2>3, <2>4, <2>5, StandingStays
<1>6. ASSUME NEW r \in Request, LikeTarget(r) PROVE StandingInv'
  <2>1. Sent(r) /\ UNCHANGED <<version, standing, unLikedByMe>>
        /\ (req' = Done(r) \/ req' = Goto(r, "chatFind"))
    BY <1>6 DEF LikeTarget, Sent
  <2>2. req'[r].pc # "rewindSave" /\ \A q \in Request : q # r => req'[q] = req[q]
    BY <2>1, Ends, Moves DEF Finished
  <2> QED BY <2>1, <2>2, StandingQuiet
<1>7. ASSUME NEW r \in Request, RewindRead(r) PROVE StandingInv'
  <2>1. Sent(r) /\ UNCHANGED <<version, standing, unLikedByMe>>
    BY <1>7 DEF RewindRead, Sent
  <2>2. CASE req' = Done(r)
    BY <2>1, <2>2, Ends, StandingQuiet DEF Finished
  <2>3. CASE req' # Done(r)
    <3>1. DOMAIN req = Request /\ DOMAIN req[r] = Fields /\ req[r].me \in User
      BY <2>1, AtWork DEF CoreType
    <3>2. /\ req'[r].pc = "rewindSave" /\ req'[r].passes = unLikedByMe[req[r].me]
          /\ req'[r].version = version[req[r].me] /\ req'[r].me = req[r].me
          /\ unLikedByMe[req[r].me] # <<>>
          /\ \A q \in Request : q # r => req'[q] = req[q]
      BY <1>7, <2>3, <3>1 DEF RewindRead, Fields
    <3>3. Backed(unLikedByMe[req[r].me], req[r].me) /\ version[req[r].me] \in Nat
      BY <3>1 DEF StandingInv
    <3>4. ASSUME NEW q \in Request, req'[q].pc = "rewindSave"
          PROVE  /\ req'[q].version \in Nat /\ req'[q].version <= version'[req'[q].me]
                 /\ Current(q)' => Backed(req[q].passes, req[q].me)' /\ req'[q].passes # <<>>
      <4>1. CASE q = r
        BY <2>1, <3>2, <3>3, <4>1 DEF Backed
      <4>2. CASE q # r
        <5>1. req'[q] = req[q] /\ req[q].pc = "rewindSave"
          BY <3>2, <3>4, <4>2
        <5> QED BY <2>1, <5>1 DEF StandingInv, Current, Backed
      <4> QED BY <4>1, <4>2
    <3> QED BY <2>1, <3>4 DEF StandingInv, Backed
  <2> QED BY <2>2, <2>3
<1>8. ASSUME NEW r \in Request, RewindSave(r) PROVE StandingInv'
  <2> DEFINE me == req[r].me
             s == req[r].passes
             Old == version
  <2>1. /\ Sent(r) /\ req' = Done(r) /\ Current(r) /\ req[r].pc = "rewindSave"
        /\ unLikedByMe' = [unLikedByMe EXCEPT ![me] = Front(s)]
        /\ version' = [version EXCEPT ![me] = version[me] + 1]
        /\ standing' = Minus(standing, me, Last(s))
    BY <1>8 DEF RewindSave, Sent, Current
  <2>2. me \in User /\ Backed(s, me) /\ s # <<>>
    BY <2>1, AtWork DEF StandingInv
  <2>3. /\ s \in Seq(User) /\ Front(s) \in Seq(User) /\ Last(s) \in User
        /\ s = Append(Front(s), Last(s))
    BY <2>2, FrontAndLast DEF Backed
  <2>4. /\ standing' \in [User -> [User -> Int]]
        /\ \A u, v \in User :
              standing'[u][v] = IF u = me /\ v = Last(s) THEN standing[u][v] - 1 ELSE standing[u][v]
    <3> HIDE DEF me, s
    <3>1. standing \in [User -> [User -> Int]]
      BY DEF StandingInv
    <3>2. standing' = [standing EXCEPT ![me] = [standing[me] EXCEPT ![Last(s)] = standing[me][Last(s)] - 1]]
      BY <2>1 DEF Minus
    <3>3. [standing[me] EXCEPT ![Last(s)] = standing[me][Last(s)] - 1] \in [User -> Int]
      BY <2>2, <2>3, <3>1
    <3> QED BY <2>2, <2>3, <3>1, <3>2, <3>3
  <2>5. version' \in [User -> Nat] /\ DOMAIN unLikedByMe' = User
        /\ \A u \in User : version'[u] = IF u = me THEN version[u] + 1 ELSE version[u]
    BY <2>1, <2>2 DEF StandingInv
  <2>6. ASSUME NEW u \in User PROVE Backed(unLikedByMe[u], u)'
    <3>1. CASE u # me
      <4>1. unLikedByMe'[u] = unLikedByMe[u] /\ \A v \in User : standing'[u][v] = standing[u][v]
        BY <2>1, <2>4, <3>1 DEF StandingInv
      <4> QED BY <4>1 DEF StandingInv, Backed
    <3>2. CASE u = me
      <4>1. unLikedByMe'[u] = Front(s)
        BY <2>1, <2>2, <3>2 DEF StandingInv
      <4>2. ASSUME NEW v \in User PROVE TimesPassed(Front(s), v) <= standing'[u][v]
        <5>0. TimesPassed(Append(Front(s), Last(s)), v)
                = TimesPassed(Front(s), v) + (IF Last(s) = v THEN 1 ELSE 0)
          <6>1. Front(s) \in Seq(User) /\ Last(s) \in User
            BY <2>3
          <6> QED BY ONLY <6>1, TimesPassedAppend
        <5>1. TimesPassed(s, v) = TimesPassed(Front(s), v) + (IF Last(s) = v THEN 1 ELSE 0)
          <6>1. s = Append(Front(s), Last(s))
            BY <2>3
          <6>2. TimesPassed(s, v) = TimesPassed(Append(Front(s), Last(s)), v)
            BY <6>1, Zenon
          <6> QED BY <5>0, <6>2, Zenon
        <5>2. TimesPassed(s, v) <= standing[u][v]
          BY <2>2, <3>2 DEF Backed
        <5>3. TimesPassed(Front(s), v) \in Nat /\ standing[u][v] \in Int
          BY <2>3, TimesPassedType DEF StandingInv
        <5>4. standing'[u][v] = IF v = Last(s) THEN standing[u][v] - 1 ELSE standing[u][v]
          BY <2>4, <3>2
        <5> HIDE DEF me, s
        <5> QED BY <5>1, <5>2, <5>3, <5>4
      <4> QED BY <2>3, <4>1, <4>2 DEF Backed
    <3> QED BY <3>1, <3>2
  <2>7. ASSUME NEW q \in Request, req'[q].pc = "rewindSave"
        PROVE  /\ req'[q].version \in Nat /\ req'[q].version <= version'[req'[q].me]
               /\ Current(q)' => Backed(req[q].passes, req[q].me)' /\ req'[q].passes # <<>>
    <3>1. q # r /\ req'[q] = req[q] /\ req[q].pc = "rewindSave"
      BY <2>1, <2>7, Ends DEF Finished
    <3>2. req[q].me \in User /\ req[q].version \in Nat /\ req[q].version <= version[req[q].me]
          /\ version[req[q].me] \in Nat
      BY <3>1, AtWork DEF StandingInv, Sent
    <3>3. CASE req[q].me = me
      <4>1. version'[req[q].me] = version[req[q].me] + 1
        BY <2>5, <3>2, <3>3
      <4> QED BY <3>1, <3>2, <4>1 DEF Current
    <3>4. CASE req[q].me # me
      <4>1. version'[req[q].me] = version[req[q].me]
            /\ \A v \in User : standing'[req[q].me][v] = standing[req[q].me][v]
        BY <2>4, <2>5, <3>2, <3>4
      <4>2. Current(q)' => Current(q)
        BY <3>1, <4>1 DEF Current
      <4> QED BY <3>1, <3>2, <4>1, <4>2 DEF StandingInv, Backed
    <3> QED BY <3>3, <3>4
  <2> QED BY <2>4, <2>5, <2>6, <2>7 DEF StandingInv
<1>9. ASSUME NEW b \in background, Land(b) \/ LoseBackground(b) PROVE StandingInv'
  <2>1. UNCHANGED <<version, req>>
    BY <1>9 DEF Land, UnlikeMe, UnlikeTarget, Notify, LoseBackground
  <2>2. CASE UnlikeMe(b)
    <3>1. /\ unLikedByMe' = [unLikedByMe EXCEPT ![b.from] = Append(unLikedByMe[b.from], b.to)]
          /\ standing' = Plus(standing, b.from, b.to)
      BY <2>2 DEF UnlikeMe
    <3>2. b.from \in User /\ b.to \in User /\ DOMAIN unLikedByMe' = User
      BY <3>1 DEF CoreType, StandingInv
    <3>3. /\ standing' \in [User -> [User -> Int]]
          /\ \A u, v \in User :
                standing'[u][v] = IF u = b.from /\ v = b.to THEN standing[u][v] + 1 ELSE standing[u][v]
      <4>1. standing \in [User -> [User -> Int]]
        BY DEF StandingInv
      <4>2. standing' = [standing EXCEPT ![b.from] =
                            [standing[b.from] EXCEPT ![b.to] = standing[b.from][b.to] + 1]]
        BY <3>1 DEF Plus
      <4>3. [standing[b.from] EXCEPT ![b.to] = standing[b.from][b.to] + 1] \in [User -> Int]
        BY <3>2, <4>1
      <4> QED BY <3>2, <4>1, <4>2, <4>3
    <3>4. \A u, v \in User : standing[u][v] <= standing'[u][v]
      <4>1. \A u, v \in User : standing[u][v] \in Int
        BY DEF StandingInv
      <4> QED BY <3>3, <4>1
    <3>5. ASSUME NEW u \in User PROVE Backed(unLikedByMe[u], u)'
      <4>1. unLikedByMe[u] \in Seq(User)
            /\ \A v \in User : TimesPassed(unLikedByMe[u], v) <= standing[u][v]
        BY DEF StandingInv, Backed
      <4>2. CASE u # b.from
        <5>1. unLikedByMe'[u] = unLikedByMe[u] /\ \A v \in User : standing'[u][v] = standing[u][v]
          BY <3>1, <3>3, <4>2 DEF StandingInv
        <5> QED BY <4>1, <5>1 DEF Backed
      <4>3. CASE u = b.from
        <5>1. unLikedByMe'[u] = Append(unLikedByMe[u], b.to)
          BY <3>1, <4>3 DEF StandingInv
        <5>2. ASSUME NEW v \in User PROVE TimesPassed(unLikedByMe'[u], v) <= standing'[u][v]
          <6>1. TimesPassed(unLikedByMe'[u], v)
                  = TimesPassed(unLikedByMe[u], v) + (IF b.to = v THEN 1 ELSE 0)
            BY <3>2, <4>1, <5>1, TimesPassedAppend
          <6>2. TimesPassed(unLikedByMe[u], v) \in Nat /\ standing[u][v] \in Int
            BY <4>1, TimesPassedType DEF StandingInv
          <6>3. standing'[u][v] = IF v = b.to THEN standing[u][v] + 1 ELSE standing[u][v]
            BY <3>3, <4>3
          <6>4. TimesPassed(unLikedByMe[u], v) <= standing[u][v]
            BY <4>1
          <6> QED BY <6>1, <6>2, <6>3, <6>4
        <5>3. unLikedByMe'[u] \in Seq(User)
          BY <3>2, <4>1, <5>1
        <5> QED BY <5>2, <5>3 DEF Backed
      <4> QED BY <4>2, <4>3
    <3>6. CASE Request = {}
      BY <2>1, <3>2, <3>3, <3>5, <3>6 DEF StandingInv
    <3>7. CASE Request # {}
      <4>1. PICK r \in Request : TRUE
        BY <3>7
      <4> QED BY <2>1, <3>2, <3>3, <3>4, <3>5, <4>1, StandingStays
    <3> QED BY <3>6, <3>7
  <2>3. CASE ~UnlikeMe(b)
    <3>1. UNCHANGED <<unLikedByMe, standing>>
      BY <1>9, <2>3 DEF Land, UnlikeTarget, Notify, LoseBackground
    <3> QED BY <2>1, <3>1 DEF StandingInv, Backed, Current
  <2> QED BY <2>2, <2>3
<1>10. CASE UNCHANGED vars
  BY <1>10 DEF vars, StandingInv, Backed, Current
<1> QED
  BY <1>1, <1>2, <1>3, <1>4, <1>5, <1>6, <1>7, <1>8, <1>9, <1>10
  DEF Next, LikeStep, ChatStep, RewindStep

\* No pass is undone twice and none that was undone comes back, however rewinds,
\* passes, likes and failures of any users interleave.
THEOREM UndoneOnce == Spec => []NoPassUndoneTwice
<1>1. Init => StandingInv
  <2> SUFFICES ASSUME Init PROVE StandingInv
    OBVIOUS
  <2>1. \A r \in Request : req[r].pc = "idle"
    BY DEF Init, Idle
  <2>2. /\ standing \in [User -> [User -> Int]] /\ version \in [User -> Nat]
        /\ DOMAIN unLikedByMe = User
        /\ \A u, v \in User : standing[u][v] = 0 /\ unLikedByMe[u] = <<>>
    BY DEF Init, Count0
  <2>3. \A v \in User : TimesPassed(<<>>, v) = 0 /\ <<>> \in Seq(User)
    BY FS_EmptySet DEF TimesPassed
  <2>4. ASSUME NEW u \in User PROVE Backed(unLikedByMe[u], u)
    <3>1. unLikedByMe[u] = <<>> /\ \A v \in User : standing[u][v] = 0
      BY <2>2
    <3>2. \A v \in User : TimesPassed(unLikedByMe[u], v) = 0
      BY <2>3, <3>1
    <3> QED BY <3>1, <3>2 DEF Backed
  <2> QED BY <2>1, <2>2, <2>4 DEF StandingInv
<1>2. StandingInv => NoPassUndoneTwice
  BY DEF StandingInv, Backed, NoPassUndoneTwice
<1> QED BY <1>1, <1>2, StandingStep, CoreTypeCorrect, PTL DEF Spec

-----------------------------------------------------------------------------
(* The feed.  Counting in lists of users.                                  *)

\* The other users are numbers.
LEMMA UsersAreNumbers == Other \subseteq Nat
BY LimitAssumption DEF Other

\* A list is finite, and so is every part of it.
LEMMA UsersFinite ==
    ASSUME NEW A \in SUBSET Other
    PROVE  IsFiniteSet(A) /\ Cardinality(A) \in Nat
<1>1. IsFiniteSet(Other)
  BY LimitAssumption, FS_Interval DEF Other
<1> QED BY <1>1, FS_Subset, FS_CardinalityType

\* What is in one of two sets is counted in one of them.
LEMMA CountParts ==
    ASSUME NEW A \in SUBSET Other, NEW B \in SUBSET Other, NEW C \in SUBSET Other,
           A \subseteq B \cup C
    PROVE  Cardinality(A) <= Cardinality(B) + Cardinality(C)
<1>1. IsFiniteSet(A) /\ IsFiniteSet(B) /\ IsFiniteSet(C) /\ IsFiniteSet(B \cup C)
      /\ IsFiniteSet(B \cap C)
  BY UsersFinite
<1>2. Cardinality(A) <= Cardinality(B \cup C)
  BY <1>1, FS_Subset
<1>3. Cardinality(B \cup C) = Cardinality(B) + Cardinality(C) - Cardinality(B \cap C)
  BY <1>1, FS_Union
<1>4. /\ Cardinality(A) \in Nat /\ Cardinality(B) \in Nat /\ Cardinality(C) \in Nat
      /\ Cardinality(B \cap C) \in Nat /\ Cardinality(B \cup C) \in Nat
  BY UsersFinite
<1> QED BY <1>2, <1>3, <1>4

\* What is in one of two disjoint sets is counted once.
LEMMA CountApart ==
    ASSUME NEW A \in SUBSET Other, NEW B \in SUBSET Other, NEW C \in SUBSET Other,
           B \cup C \subseteq A, B \cap C = {}
    PROVE  Cardinality(B) + Cardinality(C) <= Cardinality(A)
<1>1. IsFiniteSet(A) /\ IsFiniteSet(B) /\ IsFiniteSet(C) /\ IsFiniteSet(B \cup C)
  BY UsersFinite
<1>2. Cardinality(B \cup C) <= Cardinality(A)
  BY <1>1, FS_Subset
<1>3. Cardinality(B \cup C) = Cardinality(B) + Cardinality(C) - Cardinality(B \cap C)
  BY <1>1, FS_Union
<1>4. Cardinality(B \cap C) = 0
  BY FS_EmptySet
<1>5. /\ Cardinality(A) \in Nat /\ Cardinality(B) \in Nat /\ Cardinality(C) \in Nat
  BY UsersFinite
<1> QED BY <1>2, <1>3, <1>4, <1>5

\* A part counts no more than the whole.
LEMMA CountPart ==
    ASSUME NEW A \in SUBSET Other, NEW B \in SUBSET A
    PROVE  /\ Cardinality(B) <= Cardinality(A)
           /\ Cardinality(A) \in Nat /\ Cardinality(B) \in Nat
BY UsersFinite, FS_Subset

\* The users of a list whom a scroll up to place s has passed, and the others.
Early(all, s) == {u \in all : Before(u, all) < s}
Late(all, s) == {u \in all : Before(u, all) >= s}

\* They are parts of the list.
LEMMA PartsOfList ==
    ASSUME NEW all \in SUBSET Other, NEW s
    PROVE  Early(all, s) \in SUBSET all /\ Late(all, s) \in SUBSET all
BY DEF Early, Late

\* How many are listed before a user, with the ends of a set of users between.
LEMMA CountBetween ==
    ASSUME NEW all \in SUBSET Other, NEW part \in SUBSET all, NEW b \in Other, NEW m \in part,
           \A u \in part : b <= u /\ u <= m
    PROVE  /\ Before(b, all) + Cardinality(part) - 1 <= Before(m, all)
           /\ Before(b, all) \in Nat /\ Before(m, all) \in Nat /\ Cardinality(part) \in Nat
<1> DEFINE low == {v \in all : v < b}
           high == {v \in all : v < m}
           rest == part \ {m}
<1>1. /\ low \in SUBSET Other /\ high \in SUBSET Other
      /\ rest \in SUBSET Other /\ part \in SUBSET Other
  OBVIOUS
<1>2. low \cup rest \subseteq high /\ low \cap rest = {}
  <2>1. \A u \in Other : u \in Nat
    BY UsersAreNumbers
  <2>2. ASSUME NEW v \in low PROVE v \in high /\ v \notin rest
    <3>1. v \in Nat /\ b \in Nat /\ m \in Nat /\ v < b /\ b <= m
      BY <2>1
    <3>2. v < m /\ ~(b <= v)
      BY ONLY <3>1
    <3> QED BY <3>2
  <2>3. ASSUME NEW v \in rest PROVE v \in high
    <3>1. v \in Nat /\ m \in Nat /\ v <= m /\ v # m
      BY <2>1
    <3>2. v < m
      BY ONLY <3>1
    <3> QED BY <3>2
  <2> HIDE DEF low, high, rest
  <2> QED BY <2>2, <2>3
<1>3. Cardinality(low) + Cardinality(rest) <= Cardinality(high)
  <2> HIDE DEF low, high, rest
  <2> QED BY <1>1, <1>2, CountApart
<1>4. Cardinality(rest) = Cardinality(part) - 1
  BY <1>1, UsersFinite, FS_RemoveElement
<1>5. Before(b, all) = Cardinality(low) /\ Before(m, all) = Cardinality(high)
  BY DEF Before
<1>6. Cardinality(low) \in Nat /\ Cardinality(high) \in Nat /\ Cardinality(part) \in Nat
  <2> HIDE DEF low, high, rest
  <2> QED BY <1>1, UsersFinite
<1> HIDE DEF low, high, rest
<1> QED BY <1>3, <1>4, <1>5, <1>6

\* How many are listed before a user in two lists.
LEMMA CountBelow ==
    ASSUME NEW all \in SUBSET Other, NEW other \in SUBSET Other, NEW b \in Other
    PROVE  /\ Before(b, all) <= Before(b, other)
                                  + Cardinality({v \in all \ other : v < b})
           /\ Before(b, all) \in Nat /\ Before(b, other) \in Nat
           /\ Cardinality({v \in all \ other : v < b}) \in Nat
<1> DEFINE here == {v \in all : v < b}
           there == {v \in other : v < b}
           new == {v \in all \ other : v < b}
<1>1. here \in SUBSET Other /\ there \in SUBSET Other /\ new \in SUBSET Other
      /\ here \subseteq there \cup new
  OBVIOUS
<1> HIDE DEF here, there, new
<1>2. Cardinality(here) <= Cardinality(there) + Cardinality(new)
  BY <1>1, CountParts
<1>3. Cardinality(here) \in Nat /\ Cardinality(there) \in Nat /\ Cardinality(new) \in Nat
  BY <1>1, UsersFinite
<1> QED BY <1>2, <1>3 DEF Before, here, there, new

\* The list has changed: of any users, those past the scroll are more by no more
\* than who has entered.
LEMMA LateGrows ==
    ASSUME NEW old \in SUBSET Other, NEW now \in SUBSET Other, NEW who, NEW s \in Int
    PROVE  Cardinality(Late(now, s) \cap who)
             <= Cardinality(Late(old, s) \cap who) + Cardinality(now \ old)
<1> DEFINE past == Late(now, s) \cap who
           was == Late(old, s) \cap who
           new == now \ old
<1>0. Late(now, s) \in SUBSET now /\ Late(old, s) \in SUBSET old
  BY PartsOfList
<1>1. Other \subseteq Nat /\ past \in SUBSET Other /\ was \in SUBSET Other /\ new \in SUBSET Other
      /\ Late(now, s) \in SUBSET Nat
  BY <1>0, UsersAreNumbers
<1>2. CASE Late(now, s) = {}
  <2>1. Cardinality(past) = 0
    BY <1>2, FS_EmptySet
  <2>2. Cardinality(was) \in Nat /\ Cardinality(new) \in Nat
    <3> HIDE DEF past, was, new
    <3> QED BY <1>1, UsersFinite
  <2> HIDE DEF past, was, new
  <2> QED BY <2>1, <2>2 DEF past, was, new
<1>3. CASE Late(now, s) # {}
  <2>1. PICK b \in Late(now, s) : \A u \in Late(now, s) : b <= u
    BY <1>1, <1>3, LeastNatural
  <2>2. b \in Other /\ b \in Nat /\ Before(b, now) >= s
    BY <1>1, <2>1 DEF Late
  <2> DEFINE pushed == {u \in old : b <= u /\ Before(u, old) < s}
             under == {v \in now \ old : v < b}
             over == {v \in now \ old : b <= v}
  <2>3. pushed \in SUBSET Other /\ under \in SUBSET Other /\ over \in SUBSET Other
        /\ (pushed \cup over) \in SUBSET Other
    OBVIOUS
  <2>4. past \subseteq was \cup (pushed \cup over)
    <3> SUFFICES ASSUME NEW u \in past, u \notin over, u \notin pushed PROVE u \in was
      OBVIOUS
    <3>1. u \in now /\ b <= u /\ u \in who
      BY <2>1 DEF Late
    <3>2. u \in old /\ ~(Before(u, old) < s)
      BY <3>1
    <3>3. Before(u, old) \in Nat
      BY <1>1, CountBelow
    <3> QED BY <3>1, <3>2, <3>3 DEF Late
  <2>5. Cardinality(pushed) <= Cardinality(under)
    <3>1. Cardinality(under) \in Nat
      <4> HIDE DEF under
      <4> QED BY <2>3, UsersFinite
    <3>2. CASE pushed = {}
      <4>1. Cardinality(pushed) = 0
        BY <3>2, FS_EmptySet
      <4> HIDE DEF pushed, under
      <4> QED BY <3>1, <4>1
    <3>3. CASE pushed # {}
      <4>1. PICK m \in pushed : \A k \in pushed : k <= m
        <5>1. pushed \in SUBSET (1..MaxUsers) /\ MaxUsers \in Nat
          BY <2>3, LimitAssumption DEF Other
        <5> HIDE DEF pushed
        <5> QED BY <3>3, <5>1, GreatestNumber
      <4>2. pushed \in SUBSET old /\ \A u \in pushed : b <= u /\ u <= m
        BY <4>1
      <4>3. Before(m, old) < s
        BY <4>1
      <4>4. /\ Before(b, old) + Cardinality(pushed) - 1 <= Before(m, old)
            /\ Before(b, old) \in Nat /\ Before(m, old) \in Nat /\ Cardinality(pushed) \in Nat
        <5> HIDE DEF pushed
        <5> QED BY <2>2, <4>1, <4>2, CountBetween
      <4>5. /\ Before(b, now) <= Before(b, old) + Cardinality(under)
            /\ Before(b, now) \in Nat
        BY <2>2, CountBelow
      <4> HIDE DEF pushed, under
      <4> QED BY <2>2, <3>1, <4>3, <4>4, <4>5
    <3> QED BY <3>2, <3>3
  <2>6. Cardinality(under) + Cardinality(over) <= Cardinality(new)
    <3>1. under \cup over \subseteq new
      OBVIOUS
    <3>2. under \cap over = {}
      <4> SUFFICES ASSUME NEW v \in Nat, v < b, b <= v PROVE FALSE
        BY <1>1
      <4> QED BY <2>2
    <3> HIDE DEF under, over, new
    <3> QED BY <1>1, <2>3, <3>1, <3>2, CountApart
  <2> DEFINE more == pushed \cup over
  <2>7. Cardinality(more) <= Cardinality(pushed) + Cardinality(over)
    <3> HIDE DEF pushed, over
    <3> QED BY <2>3, CountParts
  <2>8. Cardinality(past) <= Cardinality(was) + Cardinality(more)
    <3> HIDE DEF past, was, more, pushed, over
    <3> QED BY <1>1, <2>3, <2>4, CountParts DEF more
  <2>9. /\ Cardinality(past) \in Nat /\ Cardinality(was) \in Nat /\ Cardinality(new) \in Nat
        /\ Cardinality(pushed) \in Nat /\ Cardinality(under) \in Nat /\ Cardinality(over) \in Nat
        /\ Cardinality(more) \in Nat
    <3> HIDE DEF past, was, new, pushed, under, over
    <3> QED BY <1>1, <2>3, UsersFinite DEF more
  <2>10. Cardinality(past) <= Cardinality(was) + Cardinality(new)
    <3> HIDE DEF past, was, new, pushed, under, over, more
    <3> QED BY <2>5, <2>6, <2>7, <2>8, <2>9
  <2> QED BY <2>10
<1> QED BY <1>2, <1>3

\* The list has changed: of users listed before and after, those the scroll has
\* passed are more by no more than who has left.
LEMMA EarlyGrows ==
    ASSUME NEW old \in SUBSET Other, NEW now \in SUBSET Other,
           NEW who \in SUBSET (old \cap now), NEW s \in Int
    PROVE  Cardinality(Early(now, s) \cap who)
             <= Cardinality(Early(old, s) \cap who) + Cardinality(old \ now)
<1> DEFINE behind == Early(now, s) \cap who
           was == Early(old, s) \cap who
           gone == old \ now
           pulled == {u \in who : Before(u, now) < s /\ Before(u, old) >= s}
<1>0. Early(now, s) \in SUBSET now /\ Early(old, s) \in SUBSET old
  BY PartsOfList
<1>1. /\ Other \subseteq Nat /\ behind \in SUBSET Other /\ was \in SUBSET Other
      /\ gone \in SUBSET Other /\ pulled \in SUBSET Other /\ pulled \in SUBSET Nat
  BY <1>0, UsersAreNumbers
<1>2. behind \subseteq was \cup pulled
  <2> SUFFICES ASSUME NEW u \in behind, u \notin pulled PROVE u \in was
    OBVIOUS
  <2>1. u \in who /\ u \in old /\ u \in Other /\ Before(u, now) < s
    BY DEF Early
  <2>2. Before(u, old) \in Nat
    BY <2>1, CountBelow
  <2>3. ~(Before(u, old) >= s)
    BY <2>1
  <2> QED BY <2>1, <2>2, <2>3 DEF Early
<1>3. /\ Cardinality(behind) \in Nat /\ Cardinality(was) \in Nat /\ Cardinality(gone) \in Nat
      /\ Cardinality(pulled) \in Nat
  <2> HIDE DEF behind, was, gone, pulled
  <2> QED BY <1>1, UsersFinite
<1>4. Cardinality(pulled) <= Cardinality(gone)
  <2>1. CASE pulled = {}
    <3>1. Cardinality(pulled) = 0
      BY <2>1, FS_EmptySet
    <3> HIDE DEF pulled, gone
    <3> QED BY <1>3, <3>1
  <2>2. CASE pulled # {}
    <3>1. PICK b \in pulled : \A k \in pulled : b <= k
      <4> HIDE DEF pulled
      <4> QED BY <1>1, <2>2, LeastNatural
    <3>2. PICK m \in pulled : \A k \in pulled : k <= m
      <4>1. pulled \in SUBSET (1..MaxUsers) /\ MaxUsers \in Nat
        BY <1>1, LimitAssumption DEF Other
      <4> HIDE DEF pulled
      <4> QED BY <2>2, <4>1, GreatestNumber
    <3>3. /\ b \in Other /\ m \in Other /\ pulled \in SUBSET old
          /\ Before(b, old) >= s /\ Before(m, now) < s
      BY <3>1, <3>2
    <3> DEFINE below == {v \in old \ now : v < m}
    <3>4. Cardinality(below) <= Cardinality(gone) /\ Cardinality(below) \in Nat
      <4>1. below \in SUBSET gone
        OBVIOUS
      <4> HIDE DEF below, gone
      <4> QED BY <1>1, <4>1, CountPart
    <3>5. /\ Before(m, old) <= Before(m, now) + Cardinality(below)
          /\ Before(m, now) \in Nat /\ Before(m, old) \in Nat
      BY <3>3, CountBelow
    <3>6. /\ Before(b, old) + Cardinality(pulled) - 1 <= Before(m, old)
          /\ Before(b, old) \in Nat
      <4> HIDE DEF pulled
      <4> QED BY <3>1, <3>2, <3>3, CountBetween
    <3> HIDE DEF pulled, gone, below
    <3> QED BY <1>3, <3>3, <3>4, <3>5, <3>6
  <2> QED BY <2>1, <2>2
<1>5. Cardinality(behind) <= Cardinality(was) + Cardinality(pulled)
  <2> HIDE DEF behind, was, pulled
  <2> QED BY <1>1, <1>2, CountParts
<1>6. Cardinality(behind) <= Cardinality(was) + Cardinality(gone)
  <2> HIDE DEF behind, was, pulled, gone
  <2> QED BY <1>3, <1>4, <1>5
<1> QED BY <1>6

\* What is past place s of a list is what the list has more than s, and somebody
\* is at the place s itself unless nobody is past it.
LEMMA LateFew ==
    ASSUME NEW all \in SUBSET Other, NEW s \in Nat, Late(all, s) # {}
    PROVE  /\ Cardinality(Late(all, s)) + s <= Cardinality(all)
           /\ \E u \in all : Before(u, all) = s
<1>1. Other \subseteq Nat /\ Late(all, s) \in SUBSET Other /\ Late(all, s) \in SUBSET Nat
  BY PartsOfList, UsersAreNumbers
<1>2. PICK b \in Late(all, s) : \A u \in Late(all, s) : b <= u
  BY <1>1, LeastNatural
<1>3. b \in all /\ b \in Other /\ b \in Nat /\ Before(b, all) >= s
  BY <1>1, <1>2 DEF Late
<1> DEFINE low == {v \in all : v < b}
           late == Late(all, s)
<1>4. low \in SUBSET Other /\ low \cup late \subseteq all /\ low \cap late = {}
  <2>1. low \in SUBSET Other /\ low \cup late \subseteq all
    BY PartsOfList
  <2>2. low \cap late = {}
    <3> SUFFICES ASSUME NEW v \in Nat, v < b, b <= v PROVE FALSE
      BY <1>1, <1>2
    <3> QED BY <1>3
  <2> QED BY <2>1, <2>2
<1>5. Before(b, all) = Cardinality(low)
  BY DEF Before
<1>6. Cardinality(low) \in Nat /\ Cardinality(late) \in Nat /\ Cardinality(all) \in Nat
  <2> HIDE DEF low, late
  <2> QED BY <1>1, <1>4, UsersFinite DEF late
<1>7. Cardinality(late) + s <= Cardinality(all)
  <2>1. Cardinality(low) + Cardinality(late) <= Cardinality(all)
    <3> HIDE DEF low, late
    <3> QED BY <1>1, <1>4, CountApart DEF late
  <2> HIDE DEF low, late
  <2> QED BY <1>3, <1>5, <1>6, <2>1
<1>8. Before(b, all) = s
  <2> SUFFICES ASSUME Before(b, all) # s PROVE FALSE
    OBVIOUS
  <2>1. Cardinality(low) > s
    <3> HIDE DEF low
    <3> QED BY <1>3, <1>5, <1>6
  <2>2. low # {}
    BY <2>1, FS_EmptySet
  <2>3. PICK m \in low : \A k \in low : k <= m
    <3>1. low \in SUBSET (1..MaxUsers) /\ MaxUsers \in Nat
      BY <1>4, LimitAssumption DEF Other
    <3> HIDE DEF low
    <3> QED BY <2>2, <3>1, GreatestNumber
  <2>4. m \in all /\ m \in Other /\ m < b /\ m \notin Late(all, s)
    BY <1>4, <2>3
  <2>5. PICK l \in low : \A k \in low : l <= k
    <3>1. low \in SUBSET Nat
      BY <1>1, <1>4
    <3> HIDE DEF low
    <3> QED BY <2>2, <3>1, LeastNatural
  <2>6. /\ Before(l, all) + Cardinality(low) - 1 <= Before(m, all)
        /\ Before(l, all) \in Nat /\ Before(m, all) \in Nat
    <3>1. low \in SUBSET all /\ l \in Other
      BY <1>4, <2>5
    <3> HIDE DEF low
    <3> QED BY <2>3, <2>5, <3>1, CountBetween
  <2>7. Before(m, all) >= s
    <3> HIDE DEF low
    <3> QED BY <1>6, <2>1, <2>6
  <2> QED BY <2>4, <2>7 DEF Late
<1> QED BY <1>3, <1>7, <1>8 DEF late

-----------------------------------------------------------------------------
(* The accounts of a scroll, for the list N that a request reading now     *)
(* would be given and the list F of the request in flight, before and      *)
(* after (N2, F2).                                                         *)

\* A change pays for those who may be shown again: who is past the page has been
\* shown, or is listed now and not in flight.
LEMMA FlightRepeats ==
    ASSUME NEW N \in SUBSET Other, NEW N2 \in SUBSET Other,
           NEW F \in SUBSET Other, NEW F2 \in SUBSET Other,
           (F \ F2) \cap N2 = {},
           NEW who \in SUBSET Other, NEW s \in Int, NEW rep \in Nat, NEW ent \in Nat,
           rep + Cardinality(Late(F, s) \cap who) + Cardinality(N \ F) <= ent
    PROVE  rep + Cardinality(Late(F2, s) \cap who) + Cardinality(N2 \ F2)
             <= ent + Cardinality((N2 \ N) \cup (F2 \ F))
<1> DEFINE new == (N2 \ N) \ F2
           newF == F2 \ F
           all == (N2 \ N) \cup (F2 \ F)
           ahead == N \ F
           ahead2 == N2 \ F2
           late == Late(F, s) \cap who
           late2 == Late(F2, s) \cap who
<1>1. /\ new \in SUBSET Other /\ newF \in SUBSET Other /\ all \in SUBSET Other
      /\ ahead \in SUBSET Other /\ ahead2 \in SUBSET Other
      /\ late \in SUBSET Other /\ late2 \in SUBSET Other
  OBVIOUS
<1>2. Cardinality(late2) <= Cardinality(late) + Cardinality(newF)
  BY LateGrows
<1>3. ahead2 \subseteq ahead \cup new /\ new \cup newF \subseteq all /\ new \cap newF = {}
  OBVIOUS
<1> HIDE DEF new, newF, all, ahead, ahead2, late, late2
<1>4. Cardinality(ahead2) <= Cardinality(ahead) + Cardinality(new)
  BY <1>1, <1>3, CountParts
<1>5. Cardinality(new) + Cardinality(newF) <= Cardinality(all)
  BY <1>1, <1>3, CountApart
<1>6. /\ Cardinality(new) \in Nat /\ Cardinality(newF) \in Nat /\ Cardinality(all) \in Nat
      /\ Cardinality(ahead) \in Nat /\ Cardinality(ahead2) \in Nat
      /\ Cardinality(late) \in Nat /\ Cardinality(late2) \in Nat
  BY <1>1, UsersFinite
<1>7. rep + Cardinality(late) + Cardinality(ahead) <= ent
  BY DEF late, ahead
<1>8. rep + Cardinality(late2) + Cardinality(ahead2) <= ent + Cardinality(all)
  BY <1>2, <1>4, <1>5, <1>6, <1>7
<1> QED BY <1>8 DEF late2, ahead2, all

\* A change pays for those who may be passed over: who was listed all the time and
\* is before the page has been shown, or is in flight and not listed now.
LEMMA FlightSkips ==
    ASSUME NEW N \in SUBSET Other, NEW N2 \in SUBSET Other,
           NEW F \in SUBSET Other, NEW F2 \in SUBSET Other,
           (F \ F2) \cap N2 = {}, NEW st \in SUBSET (N \cap F),
           NEW who \in SUBSET Other, NEW s \in Int, NEW bound \in Nat,
           Cardinality(Early(F, s) \cap (st \ who)) + Cardinality(F \ N) <= bound
    PROVE  Cardinality(Early(F2, s) \cap ((st \cap N2) \ who)) + Cardinality(F2 \ N2)
             <= bound + Cardinality((N2 \ N) \cup (F2 \ F))
                      + Cardinality((N \ N2) \cup (F \ F2))
<1> DEFINE goneN == (N \ N2) \cap F2
           goneF == F \ F2
           gone == (N \ N2) \cup (F \ F2)
           newF == F2 \ F
           new == (N2 \ N) \cup (F2 \ F)
           ahead == F \ N
           ahead2 == F2 \ N2
           both == goneN \cup newF
           late == Early(F, s) \cap (st \ who)
           mid == Early(F, s) \cap ((st \cap N2) \ who)
           late2 == Early(F2, s) \cap ((st \cap N2) \ who)
<1>0. Early(F, s) \in SUBSET F /\ Early(F2, s) \in SUBSET F2
  BY PartsOfList
<1>1. /\ goneN \in SUBSET Other /\ goneF \in SUBSET Other /\ gone \in SUBSET Other
      /\ newF \in SUBSET Other /\ new \in SUBSET Other /\ both \in SUBSET Other
      /\ ahead \in SUBSET Other /\ ahead2 \in SUBSET Other
      /\ late \in SUBSET Other /\ late2 \in SUBSET Other /\ mid \in SUBSET late
  BY <1>0
<1>2. st \cap N2 \subseteq N2 \cap F2
  OBVIOUS
<1>3. Cardinality(late2) <= Cardinality(mid) + Cardinality(goneF)
  <2>1. (st \cap N2) \ who \in SUBSET (F \cap F2)
    BY <1>2
  <2> QED BY <2>1, EarlyGrows
<1>4. /\ ahead2 \subseteq ahead \cup both /\ both \subseteq goneN \cup newF
      /\ goneN \cup goneF \subseteq gone /\ goneN \cap goneF = {} /\ newF \in SUBSET new
  OBVIOUS
<1> HIDE DEF goneN, goneF, gone, newF, new, ahead, ahead2, both, late, mid, late2
<1>5. Cardinality(ahead2) <= Cardinality(ahead) + Cardinality(both)
  BY <1>1, <1>4, CountParts
<1>6. Cardinality(both) <= Cardinality(goneN) + Cardinality(newF)
  BY <1>1, <1>4, CountParts
<1>7. Cardinality(goneN) + Cardinality(goneF) <= Cardinality(gone)
  BY <1>1, <1>4, CountApart
<1>8. Cardinality(newF) <= Cardinality(new) /\ Cardinality(mid) <= Cardinality(late)
  BY <1>1, <1>4, CountPart
<1>9. /\ Cardinality(goneN) \in Nat /\ Cardinality(goneF) \in Nat /\ Cardinality(gone) \in Nat
      /\ Cardinality(newF) \in Nat /\ Cardinality(new) \in Nat /\ Cardinality(both) \in Nat
      /\ Cardinality(ahead) \in Nat /\ Cardinality(ahead2) \in Nat
      /\ Cardinality(late) \in Nat /\ Cardinality(late2) \in Nat /\ Cardinality(mid) \in Nat
  BY <1>1, UsersFinite, CountPart
<1>10. Cardinality(late) + Cardinality(ahead) <= bound
  BY DEF late, ahead
<1>11. Cardinality(late2) + Cardinality(ahead2) <= bound + Cardinality(new) + Cardinality(gone)
  BY <1>3, <1>5, <1>6, <1>7, <1>8, <1>9, <1>10
<1> QED BY <1>11 DEF late2, ahead2, new, gone

\* A change pays for what the list of the request outgrows its count by, too.
LEMMA FlightOutgrows ==
    ASSUME NEW N \in SUBSET Other, NEW N2 \in SUBSET Other,
           NEW F \in SUBSET Other, NEW F2 \in SUBSET Other,
           (F \ F2) \cap N2 = {}, NEW st \in SUBSET (N \cap F),
           NEW who \in SUBSET Other, NEW s \in Int, NEW bound \in Nat, NEW total \in Nat,
           Cardinality(Early(F, s) \cap (st \ who)) + Cardinality(F) <= bound + total
    PROVE  Cardinality(Early(F2, s) \cap ((st \cap N2) \ who)) + Cardinality(F2)
             <= bound + Cardinality((N2 \ N) \cup (F2 \ F))
                      + Cardinality((N \ N2) \cup (F \ F2)) + total
<1> DEFINE goneF == F \ F2
           kept == F \cap F2
           gone == (N \ N2) \cup (F \ F2)
           newF == F2 \ F
           new == (N2 \ N) \cup (F2 \ F)
           late == Early(F, s) \cap (st \ who)
           mid == Early(F, s) \cap ((st \cap N2) \ who)
           late2 == Early(F2, s) \cap ((st \cap N2) \ who)
<1>0. Early(F, s) \in SUBSET F /\ Early(F2, s) \in SUBSET F2
  BY PartsOfList
<1>1. /\ goneF \in SUBSET Other /\ gone \in SUBSET Other /\ kept \in SUBSET Other
      /\ newF \in SUBSET Other /\ new \in SUBSET Other
      /\ late \in SUBSET Other /\ late2 \in SUBSET Other /\ mid \in SUBSET late
  BY <1>0
<1>2. st \cap N2 \subseteq N2 \cap F2
  OBVIOUS
<1>3. Cardinality(late2) <= Cardinality(mid) + Cardinality(goneF)
  <2>1. (st \cap N2) \ who \in SUBSET (F \cap F2)
    BY <1>2
  <2> QED BY <2>1, EarlyGrows
<1>4. /\ F2 \subseteq kept \cup newF /\ kept \cup goneF \subseteq F /\ kept \cap goneF = {}
      /\ goneF \in SUBSET gone /\ newF \in SUBSET new
  OBVIOUS
<1> HIDE DEF goneF, kept, gone, newF, new, late, mid, late2
<1>5. Cardinality(F2) <= Cardinality(kept) + Cardinality(newF)
  BY <1>1, <1>4, CountParts
<1>6. Cardinality(kept) + Cardinality(goneF) <= Cardinality(F)
  BY <1>1, <1>4, CountApart
<1>7. /\ Cardinality(newF) <= Cardinality(new) /\ Cardinality(mid) <= Cardinality(late)
      /\ Cardinality(goneF) <= Cardinality(gone)
  BY <1>1, <1>4, CountPart
<1>8. /\ Cardinality(goneF) \in Nat /\ Cardinality(gone) \in Nat /\ Cardinality(kept) \in Nat
      /\ Cardinality(newF) \in Nat /\ Cardinality(new) \in Nat
      /\ Cardinality(F) \in Nat /\ Cardinality(F2) \in Nat
      /\ Cardinality(late) \in Nat /\ Cardinality(late2) \in Nat /\ Cardinality(mid) \in Nat
  BY <1>1, UsersFinite, CountPart
<1>9. Cardinality(late) + Cardinality(F) <= bound + total
  BY DEF late
<1>10. Cardinality(late2) + Cardinality(F2)
         <= bound + Cardinality(new) + Cardinality(gone) + total
  BY <1>3, <1>5, <1>6, <1>7, <1>8, <1>9
<1> QED BY <1>10 DEF late2, new, gone

\* Between two pages there is one list, and both accounts follow it.
LEMMA BetweenPages ==
    ASSUME NEW N \in SUBSET Other, NEW N2 \in SUBSET Other, NEW st, st \subseteq N,
           NEW who \in SUBSET Other, NEW s \in Int, NEW rep \in Nat,
           NEW ent \in Nat, NEW bound \in Nat,
           rep + Cardinality(Late(N, s) \cap who) <= ent,
           Cardinality(Early(N, s) \cap (st \ who)) <= bound
    PROVE  /\ rep + Cardinality(Late(N2, s) \cap who) <= ent + Cardinality(N2 \ N)
           /\ Cardinality(Early(N2, s) \cap ((st \cap N2) \ who))
                <= bound + Cardinality(N2 \ N) + Cardinality(N \ N2)
<1> DEFINE new == N2 \ N
           gone == N \ N2
           past == Late(N, s) \cap who
           past2 == Late(N2, s) \cap who
           late == Early(N, s) \cap (st \ who)
           mid == Early(N, s) \cap ((st \cap N2) \ who)
           late2 == Early(N2, s) \cap ((st \cap N2) \ who)
<1>0. Early(N, s) \in SUBSET N /\ Early(N2, s) \in SUBSET N2
  BY PartsOfList
<1>1. /\ new \in SUBSET Other /\ gone \in SUBSET Other
      /\ past \in SUBSET Other /\ past2 \in SUBSET Other
      /\ late \in SUBSET Other /\ late2 \in SUBSET Other /\ mid \in SUBSET late
  BY <1>0
<1>2. Cardinality(past2) <= Cardinality(past) + Cardinality(new)
  BY LateGrows
<1>3. Cardinality(late2) <= Cardinality(mid) + Cardinality(gone)
  <2>1. (st \cap N2) \ who \in SUBSET (N \cap N2)
    OBVIOUS
  <2> QED BY <2>1, EarlyGrows
<1> HIDE DEF new, gone, past, past2, late, mid, late2
<1>4. Cardinality(mid) <= Cardinality(late)
  BY <1>1, CountPart
<1>5. /\ Cardinality(new) \in Nat /\ Cardinality(gone) \in Nat
      /\ Cardinality(past) \in Nat /\ Cardinality(past2) \in Nat
      /\ Cardinality(late) \in Nat /\ Cardinality(late2) \in Nat /\ Cardinality(mid) \in Nat
  BY <1>1, UsersFinite, CountPart
<1>6. rep + Cardinality(past) <= ent /\ Cardinality(late) <= bound
  BY DEF past, late
<1>7. /\ rep + Cardinality(past2) <= ent + Cardinality(new)
      /\ Cardinality(late2) <= bound + Cardinality(new) + Cardinality(gone)
  BY <1>2, <1>3, <1>4, <1>5, <1>6
<1> QED BY <1>7 DEF past2, late2, new, gone

\* A page: those of a list whose places are on it.
Paged(all, s, t) == {u \in all : s <= Before(u, all) /\ Before(u, all) < t}

\* Where the page is in its list.
LEMMA PageApart ==
    ASSUME NEW F \in SUBSET Other, NEW s \in Int, NEW t \in Int, s <= t
    PROVE  /\ Paged(F, s, t) \in SUBSET Other
           /\ Paged(F, s, t) \cap Late(F, t) = {}
           /\ Paged(F, s, t) \cup Late(F, t) \subseteq Late(F, s)
           /\ Early(F, t) \subseteq Early(F, s) \cup Paged(F, s, t)
           /\ F \subseteq Early(F, t) \cup Late(F, t)
<1>1. \A u \in F : Before(u, F) \in Nat
  BY CountBelow
<1>2. ASSUME NEW u \in F
      PROVE  /\ ~(Before(u, F) < t /\ Before(u, F) >= t)
             /\ s <= Before(u, F) /\ Before(u, F) < t => Before(u, F) >= s
             /\ Before(u, F) >= t => Before(u, F) >= s
             /\ Before(u, F) < t => Before(u, F) < s \/ s <= Before(u, F)
             /\ Before(u, F) < t \/ Before(u, F) >= t
  <2>1. Before(u, F) \in Nat
    BY <1>1
  <2> QED BY <2>1
<1> QED BY <1>2 DEF Paged, Early, Late

\* After a page, what was shown again is paid, and so is what may be shown again of
\* the list as it is now.
LEMMA PageRepeats ==
    ASSUME NEW N \in SUBSET Other, NEW F \in SUBSET Other, NEW who \in SUBSET Other,
           NEW s \in Int, NEW t \in Int, s <= t, NEW rep \in Nat, NEW ent \in Nat,
           rep + Cardinality(Late(F, s) \cap who) + Cardinality(N \ F) <= ent
    PROVE  rep + Cardinality(who \cap Paged(F, s, t))
               + Cardinality(Late(N, t) \cap (who \cup Paged(F, s, t))) <= ent
<1> DEFINE page == Paged(F, s, t)
           again == who \cap page
           past == Late(F, s) \cap who
           beyond == Late(F, t) \cap (who \cup page)
           beyondNow == Late(N, t) \cap (who \cup page)
           ahead == N \ F
<1>1. /\ page \in SUBSET Other /\ page \cap Late(F, t) = {}
      /\ page \cup Late(F, t) \subseteq Late(F, s)
  BY PageApart
<1>2. /\ again \in SUBSET Other /\ past \in SUBSET Other /\ beyond \in SUBSET Other
      /\ beyondNow \in SUBSET Other /\ ahead \in SUBSET Other
  BY <1>1
<1>3. again \cup beyond \subseteq past /\ again \cap beyond = {}
  <2> HIDE DEF page
  <2> QED BY <1>1
<1>4. Cardinality(beyondNow) <= Cardinality(beyond) + Cardinality(ahead)
  BY LateGrows
<1> HIDE DEF page, again, past, beyond, beyondNow, ahead
<1>5. Cardinality(again) + Cardinality(beyond) <= Cardinality(past)
  BY <1>2, <1>3, CountApart
<1>6. /\ Cardinality(again) \in Nat /\ Cardinality(past) \in Nat /\ Cardinality(beyond) \in Nat
      /\ Cardinality(beyondNow) \in Nat /\ Cardinality(ahead) \in Nat
  BY <1>2, UsersFinite
<1>7. rep + Cardinality(past) + Cardinality(ahead) <= ent
  BY DEF past, ahead
<1>8. rep + Cardinality(again) + Cardinality(beyondNow) <= ent
  BY <1>4, <1>5, <1>6, <1>7
<1> QED BY <1>8 DEF again, beyondNow, page

\* After a page, who may be passed over on the list as it is now is paid.
LEMMA PageSkips ==
    ASSUME NEW N \in SUBSET Other, NEW F \in SUBSET Other, NEW who \in SUBSET Other,
           NEW st \in SUBSET (N \cap F), NEW s \in Int, NEW t \in Int, s <= t, NEW bound \in Nat,
           Cardinality(Early(F, s) \cap (st \ who)) + Cardinality(F \ N) <= bound
    PROVE  Cardinality(Early(N, t) \cap (st \ (who \cup Paged(F, s, t)))) <= bound
<1> DEFINE left0 == st \ (who \cup Paged(F, s, t))
           late == Early(F, s) \cap (st \ who)
           later == Early(F, t) \cap left0
           laterNow == Early(N, t) \cap left0
           gone == F \ N
<1>1. Early(F, t) \subseteq Early(F, s) \cup Paged(F, s, t)
  BY PageApart
<1>2. later \in SUBSET late
  BY <1>1
<1>3. Cardinality(laterNow) <= Cardinality(later) + Cardinality(gone)
  <2>1. left0 \in SUBSET (F \cap N)
    OBVIOUS
  <2> HIDE DEF left0
  <2> QED BY <2>1, EarlyGrows
<1>4. late \in SUBSET Other /\ laterNow \in SUBSET Other /\ gone \in SUBSET Other
  OBVIOUS
<1> HIDE DEF left0, late, later, laterNow, gone
<1>5. Cardinality(later) <= Cardinality(late)
  BY <1>2, <1>4, CountPart
<1>6. /\ Cardinality(late) \in Nat /\ Cardinality(later) \in Nat
      /\ Cardinality(laterNow) \in Nat /\ Cardinality(gone) \in Nat
  BY <1>2, <1>4, UsersFinite, CountPart
<1>7. Cardinality(late) + Cardinality(gone) <= bound
  BY DEF late, gone
<1>8. Cardinality(laterNow) <= bound
  BY <1>3, <1>5, <1>6, <1>7
<1> QED BY <1>8 DEF laterNow, left0

\* After the last page, everybody who was listed all the time and not shown is paid:
\* the page was empty, or the list has outgrown the count.
LEMMA LastPage ==
    ASSUME NEW F \in SUBSET Other, NEW who \in SUBSET Other, NEW st, st \subseteq F,
           NEW s \in Nat, NEW t \in Nat, s < t, NEW bound \in Nat, NEW total \in Nat,
           Cardinality(Early(F, s) \cap (st \ who)) <= bound,
           Cardinality(Early(F, s) \cap (st \ who)) + Cardinality(F) <= bound + total,
           Paged(F, s, t) = {} \/ total <= t
    PROVE  Cardinality(st \ (who \cup Paged(F, s, t))) <= bound
<1> DEFINE unseen == st \ (who \cup Paged(F, s, t))
           late == Early(F, s) \cap (st \ who)
           past == Late(F, t)
<1>1. /\ Early(F, t) \subseteq Early(F, s) \cup Paged(F, s, t)
      /\ F \subseteq Early(F, t) \cup Late(F, t)
      /\ Paged(F, s, t) \cup Late(F, t) \subseteq Late(F, s)
  BY PageApart
<1>2. unseen \subseteq late \cup past
  BY <1>1
<1>3. unseen \in SUBSET Other /\ late \in SUBSET Other /\ past \in SUBSET Other
  BY PartsOfList
<1>4. /\ Cardinality(unseen) \in Nat /\ Cardinality(late) \in Nat /\ Cardinality(past) \in Nat
      /\ Cardinality(F) \in Nat
  <2> HIDE DEF unseen, late, past
  <2> QED BY <1>3, UsersFinite
<1>5. Cardinality(unseen) <= Cardinality(late) + Cardinality(past)
  <2> HIDE DEF unseen, late, past
  <2> QED BY <1>2, <1>3, CountParts
<1>6. /\ Cardinality(late) <= bound
      /\ Cardinality(late) + Cardinality(F) <= bound + total
  OBVIOUS
<1>7. CASE past = {}
  <2>1. Cardinality(past) = 0
    BY <1>7, FS_EmptySet
  <2>2. Cardinality(unseen) <= bound
    <3> HIDE DEF unseen, late, past
    <3> QED BY <1>4, <1>5, <1>6, <2>1
  <2> QED BY <2>2
<1>8. CASE past # {}
  <2>1. Cardinality(past) + t <= Cardinality(F)
    BY <1>8, LateFew
  <2>2. total <= t
    <3>1. Late(F, s) # {}
      BY <1>1, <1>8
    <3>2. PICK u \in F : Before(u, F) = s
      BY <3>1, LateFew
    <3>3. u \in Paged(F, s, t)
      BY <3>2 DEF Paged
    <3> QED BY <3>3
  <2>3. Cardinality(unseen) <= bound
    <3> HIDE DEF unseen, late, past
    <3> QED BY <1>4, <1>5, <1>6, <2>1, <2>2
  <2> QED BY <2>3
<1> QED BY <1>7, <1>8

-----------------------------------------------------------------------------
(* The scroll.                                                             *)

DocFields == {"likedByMe", "unLikedByMe", "blockUsers", "paid", "place"}

\* Types, but for the three lists of the document, which the proofs do not need:
\* whoever they leave out, a list is a set of registered users.
FeedType ==
    /\ registered \in 0..MaxUsers
    /\ DOMAIN myDoc = DocFields
    /\ myDoc.paid \in BOOLEAN /\ myDoc.place \in BOOLEAN
    /\ fetch.pc \in {"rest", "count", "data", "more", "end"}
    /\ fetch.pc # "rest" => fetch.query \in Query /\ fetch.page \in Nat \ {0}
    /\ fetch.pc \in {"count", "data"} =>
          /\ fetch.filter.query = fetch.query
          /\ fetch.filter.paid \in BOOLEAN /\ fetch.filter.place \in BOOLEAN
    /\ fetch.pc = "data" => fetch.total \in Nat
    /\ changes \in Nat
    /\ shown \in SUBSET Other /\ steady \in SUBSET Other
    /\ repeats \in Nat /\ entered \in Nat /\ left \in Nat
    /\ asAsked \in BOOLEAN

\* Where the next page starts: the one in flight, or the one to ask for.
Offset == IF fetch.pc = "more" THEN StartIndex(fetch.page + 1) ELSE StartIndex(fetch.page)

RestInv == fetch.pc = "rest" => shown = {} /\ repeats = 0

\* With a page in flight.
FlightInv ==
    fetch.pc \in {"count", "data"} =>
        /\ steady \subseteq ListedNow \cap ListedInFlight
        /\ repeats + Cardinality(Late(ListedInFlight, Offset) \cap shown)
                   + Cardinality(ListedNow \ ListedInFlight) <= entered
        /\ Cardinality(Early(ListedInFlight, Offset) \cap (steady \ shown))
             + Cardinality(ListedInFlight \ ListedNow) <= entered + left

\* With its users counted.
CountedInv ==
    fetch.pc = "data" =>
        Cardinality(Early(ListedInFlight, Offset) \cap (steady \ shown))
          + Cardinality(ListedInFlight) <= (entered + left) + fetch.total

\* Between two pages.
BetweenInv ==
    fetch.pc = "more" =>
        /\ steady \subseteq ListedNow
        /\ repeats + Cardinality(Late(ListedNow, Offset) \cap shown) <= entered
        /\ Cardinality(Early(ListedNow, Offset) \cap (steady \ shown)) <= entered + left

EndInv ==
    fetch.pc = "end" =>
        repeats <= entered /\ Cardinality(steady \ shown) <= entered + left

ScrollInv == RestInv /\ FlightInv /\ CountedInv /\ BetweenInv /\ EndInv

\* A list is one of registered users who are active.
LEMMA ListedOnly ==
    ASSUME FeedType, NEW f
    PROVE  Listed(f) \in SUBSET Other /\ Listed(f) \cap inactive = {}
                /\ Listed(f) \in SUBSET (1..registered)
BY LimitAssumption DEF Listed, Other, FeedType

\* The same of the lists of a scroll.
LEMMA ListsTyped ==
    ASSUME FeedType
    PROVE  ListedNow \in SUBSET Other /\ ListedInFlight \in SUBSET Other
BY ListedOnly DEF ListedNow, ListedInFlight, ScrollOf

\* A page starts where the one before it ends.
LEMMA PagesMeet ==
    ASSUME NEW page \in Nat \ {0}
    PROVE  /\ StartIndex(page) \in Nat
           /\ StartIndex(page + 1) = StartIndex(page) + Limit
           /\ StartIndex(page + 1) = page * Limit
           /\ StartIndex(1) = 0
<1>1. PICK n \in Nat : page = n + 1
  <2>1. page - 1 \in Nat /\ page = (page - 1) + 1
    OBVIOUS
  <2> QED BY <2>1
<1>2. Limit \in Nat
  BY LimitAssumption
<1>3. n * Limit \in Nat /\ (n + 1) * Limit = n * Limit + Limit
  BY <1>2
<1>4. page - 1 = n /\ (page + 1) - 1 = page /\ 1 - 1 = 0 /\ 0 * Limit = 0
  BY <1>1, <1>2
<1> QED BY <1>1, <1>3, <1>4 DEF StartIndex

\* Who leaves the list in flight is not listed now any more, and who enters it was
\* not: it left out what the request read, so that only registrations and the status
\* of a user change it.
LEMMA FlightChanges ==
    ASSUME FeedType, FeedType', UNCHANGED fetch, fetch.pc \in {"count", "data"}
    PROVE  /\ (ListedInFlight \ ListedInFlight') \cap ListedNow' = {}
           /\ (ListedInFlight' \ ListedInFlight) \cap ListedNow = {}
<1>1. /\ ListedInFlight = {u \in 1..registered :
                              u \notin inactive \cup fetch.filter.exclude /\ Fits(u, fetch.filter)}
      /\ ListedInFlight' = {u \in 1..registered' :
                              u \notin inactive' \cup fetch.filter.exclude /\ Fits(u, fetch.filter)}
  BY DEF ListedInFlight, Listed
<1>2. /\ ListedNow \subseteq 1..registered /\ ListedNow \cap inactive = {}
      /\ ListedNow' \subseteq 1..registered' /\ ListedNow' \cap inactive' = {}
  BY DEF ListedNow, ScrollOf, Listed
<1> QED BY <1>1, <1>2

\* What a change leaves alone, and what it records.
LEMMA ChangeRecords ==
    ASSUME FeedType, Change
    PROVE  /\ FeedType'
           /\ ListedNow' \in SUBSET Other /\ ListedInFlight' \in SUBSET Other
           /\ UNCHANGED <<fetch, shown, repeats, asAsked>>
           /\ entered' = entered + Cardinality((ListedNow' \ ListedNow)
                                               \cup (ListedInFlight' \ ListedInFlight))
           /\ left' = left + Cardinality((ListedNow \ ListedNow')
                                         \cup (ListedInFlight \ ListedInFlight'))
           /\ steady' = steady \cap ListedNow'
<1>1. Recorded
  BY DEF Change
<1>2. /\ registered' \in 0..MaxUsers
      /\ DOMAIN myDoc' = DocFields /\ myDoc'.paid \in BOOLEAN /\ myDoc'.place \in BOOLEAN
  <2>1. ASSUME NEW u, Like(u) \/ Pass(u) \/ Block(u) \/ SetStatus(u) PROVE <1>2!1 /\ <1>2!2
    BY <2>1 DEF Like, Pass, Block, SetStatus, FeedType, DocFields
  <2>2. CASE Rewind
    BY <2>2 DEF Rewind, FeedType, DocFields
  <2>3. CASE Register
    BY <2>3, LimitAssumption DEF Register, FeedType
  <2>4. CASE ChangeMe
    BY <2>4 DEF ChangeMe, FeedType, DocFields
  <2> QED BY <2>1, <2>2, <2>3, <2>4 DEF Change
<1>3. /\ ListedNow \in SUBSET Other /\ ListedInFlight \in SUBSET Other
      /\ ListedNow' \in SUBSET Other /\ ListedInFlight' \in SUBSET Other
  <2>1. 1..registered \subseteq Other /\ 1..registered' \subseteq Other
    BY <1>2, LimitAssumption DEF FeedType, Other
  <2>2. /\ ListedNow \subseteq 1..registered /\ ListedInFlight \subseteq 1..registered
        /\ ListedNow' \subseteq 1..registered' /\ ListedInFlight' \subseteq 1..registered'
    BY DEF ListedNow, ListedInFlight, ScrollOf, Listed
  <2> QED BY <2>1, <2>2
<1>4. /\ Cardinality((ListedNow' \ ListedNow) \cup (ListedInFlight' \ ListedInFlight)) \in Nat
      /\ Cardinality((ListedNow \ ListedNow') \cup (ListedInFlight \ ListedInFlight')) \in Nat
  <2>1. PICK N2 : N2 = ListedNow'
    OBVIOUS
  <2>2. PICK F2 : F2 = ListedInFlight'
    OBVIOUS
  <2>3. /\ (N2 \ ListedNow) \cup (F2 \ ListedInFlight) \in SUBSET Other
        /\ (ListedNow \ N2) \cup (ListedInFlight \ F2) \in SUBSET Other
    BY <1>3, <2>1, <2>2
  <2>4. /\ Cardinality((N2 \ ListedNow) \cup (F2 \ ListedInFlight)) \in Nat
        /\ Cardinality((ListedNow \ N2) \cup (ListedInFlight \ F2)) \in Nat
    BY <2>3, UsersFinite
  <2> QED BY <2>1, <2>2, <2>4
<1>5. /\ entered' \in Nat /\ left' \in Nat /\ changes' \in Nat /\ steady' \in SUBSET Other
      /\ UNCHANGED <<fetch, shown, repeats, asAsked>>
  BY <1>1, <1>4 DEF Recorded, FeedType
<1> QED BY <1>1, <1>2, <1>3, <1>5 DEF Recorded, FeedType

\* Every step keeps the types.
LEMMA FeedTypeStep == FeedType /\ [FeedNext]_feedVars => FeedType'
<1> SUFFICES ASSUME FeedType, [FeedNext]_feedVars PROVE FeedType'
  OBVIOUS
<1> USE DEF world, scroll
<1>1. ASSUME NEW q \in Query, NEW page \in Nat \ {0}, FindMe(q, page),
             UNCHANGED <<world, changes, shown, repeats, entered, left, asAsked>>,
             steady' \in SUBSET Other
      PROVE  FeedType'
  BY <1>1 DEF FindMe, FilterNow, FeedType
<1>2. CASE Open
  <2>1. PICK q \in Query : FindMe(q, 1) /\ steady' = ScrollOf(q)
    BY <1>2 DEF Open
  <2>2. ScrollOf(q) \in SUBSET Other
    BY ListedOnly DEF ScrollOf
  <2> QED BY <1>1, <1>2, <2>1, <2>2 DEF Open
<1>3. CASE More
  <2>1. fetch.query \in Query /\ fetch.page + 1 \in Nat \ {0}
    BY <1>3 DEF More, FeedType
  <2> QED BY <1>1, <1>3, <2>1 DEF More, FeedType
<1>4. CASE Count
  <2>1. Cardinality(Listed(fetch.filter)) \in Nat
    BY ListedOnly, UsersFinite
  <2> QED BY <1>4, <2>1 DEF Count, FeedType
<1>5. CASE Data
  <2>1. PICK page : page = PageOf(fetch.filter, fetch.page)
    OBVIOUS
  <2>2. page \in SUBSET Other
    BY <2>1, ListedOnly DEF PageOf
  <2>3. Cardinality(shown \cap page) \in Nat
    BY <2>2, UsersFinite
  <2>4. CASE Forget
    BY <1>5, <2>4 DEF Data, Forget, Resting, FeedType
  <2>5. CASE ~Forget
    <3>1. /\ \E label \in {"more", "end"} :
                fetch' = [pc |-> label, query |-> fetch.query, page |-> fetch.page]
          /\ shown' = shown \cup page /\ repeats' = repeats + Cardinality(shown \cap page)
          /\ asAsked' \in BOOLEAN
          /\ UNCHANGED <<world, changes, steady, entered, left>> /\ fetch.pc = "data"
      BY <1>5, <2>1, <2>5 DEF Data, FeedType
    <3> QED BY <2>2, <2>3, <3>1 DEF FeedType
  <2> QED BY <2>4, <2>5
<1>6. CASE Leave
  BY <1>6 DEF Leave, Forget, Resting, FeedType
<1>7. CASE Change
  BY <1>7, ChangeRecords
<1>8. CASE UNCHANGED feedVars
  BY <1>8 DEF feedVars, FeedType
<1> QED BY <1>2, <1>3, <1>4, <1>5, <1>6, <1>7, <1>8 DEF FeedNext

\* The types of the feed.
THEOREM FeedTypeCorrect == FeedSpec => []FeedType
<1>1. FeedInit => FeedType
  BY LimitAssumption DEF FeedInit, Resting, FeedType, DocFields
<1> QED BY <1>1, FeedTypeStep, PTL DEF FeedSpec

\* A change keeps the accounts of a scroll.
LEMMA ScrollChange ==
    ASSUME FeedType, ScrollInv, Change
    PROVE  ScrollInv'
<1>1. /\ FeedType' /\ UNCHANGED <<fetch, shown, repeats>>
      /\ ListedNow' \in SUBSET Other /\ ListedInFlight' \in SUBSET Other
      /\ entered' = entered + Cardinality((ListedNow' \ ListedNow)
                                          \cup (ListedInFlight' \ ListedInFlight))
      /\ left' = left + Cardinality((ListedNow \ ListedNow')
                                    \cup (ListedInFlight \ ListedInFlight'))
      /\ steady' = steady \cap ListedNow'
  BY ChangeRecords
<1>2. PICK N2 : N2 = ListedNow'
  OBVIOUS
<1>3. PICK F2 : F2 = ListedInFlight'
  OBVIOUS
<1>4. PICK N : N = ListedNow
  OBVIOUS
<1>5. PICK F : F = ListedInFlight
  OBVIOUS
<1>6. /\ N \in SUBSET Other /\ F \in SUBSET Other
      /\ N2 \in SUBSET Other /\ F2 \in SUBSET Other
  BY <1>1, <1>2, <1>3, <1>4, <1>5, ListsTyped
<1>7. /\ shown \in SUBSET Other /\ steady \in SUBSET Other /\ repeats \in Nat
      /\ entered \in Nat /\ left \in Nat /\ entered + left \in Nat
  BY DEF FeedType
<1> DEFINE came == (N2 \ N) \cup (F2 \ F)
           went == (N \ N2) \cup (F \ F2)
<1>8. /\ entered' = entered + Cardinality(came) /\ left' = left + Cardinality(went)
      /\ steady' = steady \cap N2
  BY <1>1, <1>2, <1>3, <1>4, <1>5
<1>9. Cardinality(came) \in Nat /\ Cardinality(went) \in Nat
  BY <1>6, UsersFinite
<1>10. PICK s : s = Offset
  OBVIOUS
<1>11. Offset' = s
  BY <1>1, <1>10 DEF Offset
<1>12. s \in Int \/ fetch.pc = "rest"
  BY <1>10, PagesMeet DEF Offset, FeedType
<1>13. RestInv' /\ (fetch.pc \notin {"count", "data"} => FlightInv')
       /\ (fetch.pc # "data" => CountedInv') /\ (fetch.pc # "more" => BetweenInv')
       /\ (fetch.pc # "end" => EndInv')
  BY <1>1 DEF ScrollInv, RestInv, FlightInv, CountedInv, BetweenInv, EndInv
<1>14. ASSUME fetch.pc \in {"count", "data"} PROVE FlightInv' /\ CountedInv'
  <2>1. (F \ F2) \cap N2 = {}
    BY <1>1, <1>2, <1>3, <1>5, <1>14, FlightChanges
  <2>2. /\ steady \subseteq N \cap F
        /\ repeats + Cardinality(Late(F, s) \cap shown) + Cardinality(N \ F) <= entered
        /\ Cardinality(Early(F, s) \cap (steady \ shown)) + Cardinality(F \ N) <= entered + left
    BY <1>4, <1>5, <1>10, <1>14 DEF ScrollInv, FlightInv
  <2>3. s \in Int
    BY <1>12, <1>14
  <2>4. repeats + Cardinality(Late(F2, s) \cap shown) + Cardinality(N2 \ F2)
          <= entered + Cardinality(came)
    <3> HIDE DEF came
    <3> QED BY <1>6, <1>7, <2>1, <2>2, <2>3, FlightRepeats DEF came
  <2>5. /\ steady \cap N2 \subseteq N2 \cap F2
        /\ Cardinality(Early(F2, s) \cap ((steady \cap N2) \ shown)) + Cardinality(F2 \ N2)
             <= (entered + left) + Cardinality(came) + Cardinality(went)
    <3>1. steady \in SUBSET (N \cap F)
      BY <2>2
    <3>2. steady \cap N2 \subseteq N2 \cap F2
      BY <1>6, <2>1, <3>1
    <3>3. Cardinality(Early(F2, s) \cap ((steady \cap N2) \ shown)) + Cardinality(F2 \ N2)
             <= (entered + left) + Cardinality(came) + Cardinality(went)
      <4> HIDE DEF came, went
      <4> QED BY <1>6, <1>7, <2>1, <2>2, <2>3, <3>1, FlightSkips DEF came, went
    <3> QED BY <3>2, <3>3
  <2> HIDE DEF came, went
  <2>6. FlightInv'
    <3>1. /\ steady' \subseteq N2 \cap F2
          /\ repeats' + Cardinality(Late(F2, s) \cap shown') + Cardinality(N2 \ F2) <= entered'
      BY <1>1, <1>8, <2>4, <2>5
    <3>2. (entered + left) + Cardinality(came) + Cardinality(went) = entered' + left'
      BY <1>7, <1>8, <1>9
    <3>3. Cardinality(Early(F2, s) \cap (steady' \ shown')) + Cardinality(F2 \ N2)
             <= entered' + left'
      BY <1>1, <1>8, <2>5, <3>2
    <3> QED BY <1>2, <1>3, <1>11, <3>1, <3>3 DEF FlightInv
  <2>7. CASE fetch.pc = "data"
    <3>1. fetch.total \in Nat
      BY <2>7 DEF FeedType
    <3>2. Cardinality(Early(F, s) \cap (steady \ shown)) + Cardinality(F)
            <= (entered + left) + fetch.total
      BY <1>5, <1>10, <2>7 DEF ScrollInv, CountedInv
    <3>3. Cardinality(Early(F2, s) \cap ((steady \cap N2) \ shown)) + Cardinality(F2)
            <= (entered + left) + Cardinality(came) + Cardinality(went) + fetch.total
      BY <1>6, <1>7, <2>1, <2>2, <2>3, <3>1, <3>2, FlightOutgrows DEF came, went
    <3>4. (entered + left) + Cardinality(came) + Cardinality(went) + fetch.total
            = (entered' + left') + fetch'.total
      BY <1>1, <1>7, <1>8, <1>9, <3>1
    <3>5. Cardinality(Early(F2, s) \cap (steady' \ shown')) + Cardinality(F2)
            <= (entered' + left') + fetch'.total
      BY <1>1, <1>8, <3>3, <3>4
    <3> QED BY <1>3, <1>11, <2>6, <3>5 DEF CountedInv
  <2> QED BY <1>13, <2>6, <2>7
<1>15. ASSUME fetch.pc = "more" PROVE BetweenInv'
  <2>1. /\ steady \subseteq N
        /\ repeats + Cardinality(Late(N, s) \cap shown) <= entered
        /\ Cardinality(Early(N, s) \cap (steady \ shown)) <= entered + left
    BY <1>4, <1>10, <1>15 DEF ScrollInv, BetweenInv
  <2>2. s \in Int
    BY <1>12, <1>15
  <2>3. /\ repeats + Cardinality(Late(N2, s) \cap shown) <= entered + Cardinality(N2 \ N)
        /\ Cardinality(Early(N2, s) \cap ((steady \cap N2) \ shown))
             <= (entered + left) + Cardinality(N2 \ N) + Cardinality(N \ N2)
    BY <1>6, <1>7, <2>1, <2>2, BetweenPages
  <2>4. N2 \ N \in SUBSET came /\ N \ N2 \in SUBSET went /\ came \in SUBSET Other
        /\ went \in SUBSET Other
    BY <1>6
  <2> DEFINE new == N2 \ N
             gone == N \ N2
  <2>5. /\ Cardinality(new) <= Cardinality(came) /\ Cardinality(gone) <= Cardinality(went)
        /\ Cardinality(new) \in Nat /\ Cardinality(gone) \in Nat
    <3> HIDE DEF came, went
    <3> QED BY <2>4, CountPart
  <2> DEFINE past == Late(N2, s) \cap shown
             early == Early(N2, s) \cap ((steady \cap N2) \ shown)
  <2>6. past \in SUBSET Other /\ early \in SUBSET Other
    BY <1>7
  <2>7. Cardinality(past) \in Nat /\ Cardinality(early) \in Nat
    <3> HIDE DEF past, early
    <3> QED BY <2>6, UsersFinite
  <2>8. /\ repeats + Cardinality(past) <= entered + Cardinality(new)
        /\ Cardinality(early) <= (entered + left) + Cardinality(new) + Cardinality(gone)
    BY <2>3
  <2>9. repeats' + Cardinality(past) <= entered' /\ Cardinality(early) <= entered' + left'
    <3> HIDE DEF came, went, new, gone, past, early
    <3> QED BY <1>1, <1>7, <1>8, <1>9, <2>5, <2>7, <2>8
  <2>10. steady' \subseteq N2
    BY <1>8
  <2>11. /\ repeats' + Cardinality(Late(N2, s) \cap shown') <= entered'
         /\ Cardinality(Early(N2, s) \cap (steady' \ shown')) <= entered' + left'
    BY <1>1, <1>8, <2>9
  <2> QED BY <1>2, <1>11, <2>10, <2>11 DEF BetweenInv
<1>16. ASSUME fetch.pc = "end" PROVE EndInv'
  <2> DEFINE unseen == steady \ shown
             unseen2 == (steady \cap N2) \ shown
  <2>1. unseen \in SUBSET Other /\ unseen2 \in SUBSET unseen
    BY <1>7
  <2>2. /\ Cardinality(unseen2) <= Cardinality(unseen)
        /\ Cardinality(unseen) \in Nat /\ Cardinality(unseen2) \in Nat
    <3> HIDE DEF unseen, unseen2
    <3> QED BY <2>1, CountPart
  <2>3. repeats <= entered /\ Cardinality(unseen) <= entered + left
    BY <1>16 DEF ScrollInv, EndInv
  <2>4. repeats' <= entered' /\ Cardinality(unseen2) <= entered' + left'
    <3> HIDE DEF came, went, unseen, unseen2
    <3> QED BY <1>1, <1>7, <1>8, <1>9, <2>2, <2>3
  <2>5. Cardinality(steady' \ shown') <= entered' + left'
    BY <1>1, <1>8, <2>4
  <2> QED BY <2>4, <2>5 DEF EndInv
<1> QED BY <1>13, <1>14, <1>15, <1>16 DEF ScrollInv

\* The read of the document makes the list of the request the list as it is now.
LEMMA FoundIsNow ==
    ASSUME FeedType, NEW q \in Query, NEW page \in Nat \ {0}, FindMe(q, page),
           UNCHANGED world
    PROVE  /\ fetch'.pc = "count" /\ fetch'.page = page
           /\ ListedNow' = ScrollOf(q) /\ ListedInFlight' = ScrollOf(q)
           /\ Offset' = StartIndex(page)
           /\ ScrollOf(q) \in SUBSET Other
<1>1. fetch' = [pc |-> "count", query |-> q, page |-> page, filter |-> FilterNow(q)]
  BY DEF FindMe
<1>2. UNCHANGED <<registered, inactive, myDoc>>
  BY DEF world
<1>3. /\ fetch'.pc = "count" /\ fetch'.page = page /\ fetch'.query = q
      /\ fetch'.filter = FilterNow(q)
  BY <1>1
<1>4. ListedNow' = ScrollOf(q)
  BY <1>2, <1>3 DEF ListedNow, ScrollOf, Listed, FilterNow, IdsToExclude
<1>5. ListedInFlight' = ScrollOf(q)
  BY <1>2, <1>3 DEF ListedInFlight, ScrollOf, Listed
<1> QED BY <1>3, <1>4, <1>5, ListedOnly DEF Offset, ScrollOf

\* The first page.
LEMMA ScrollOpens ==
    ASSUME FeedType, ScrollInv, Open
    PROVE  ScrollInv'
<1>1. PICK q \in Query : FindMe(q, 1) /\ steady' = ScrollOf(q)
  BY DEF Open
<1>2. PICK F : F = ScrollOf(q)
  OBVIOUS
<1>3. /\ fetch'.pc = "count" /\ ListedNow' = F /\ ListedInFlight' = F /\ F \in SUBSET Other
      /\ Offset' = 0
  BY <1>1, <1>2, FoundIsNow, PagesMeet DEF Open
<1>4. shown' = {} /\ repeats' = 0 /\ entered' \in Nat /\ left' \in Nat
  BY DEF Open, ScrollInv, RestInv, FeedType
<1>5. Early(F, 0) = {}
  <2>1. \A u \in F : Before(u, F) \in Nat
    BY <1>3, CountBelow
  <2>2. \A u \in F : ~(Before(u, F) < 0)
    BY <2>1
  <2> QED BY <2>2 DEF Early
<1>6. /\ Late(F, 0) \cap {} = {} /\ F \ F = {} /\ Early(F, 0) \cap (steady' \ shown') = {}
      /\ Cardinality({}) = 0
  BY <1>5, FS_EmptySet
<1>7. FlightInv'
  <2>1. /\ Cardinality(Late(F, 0) \cap shown') = 0 /\ Cardinality(F \ F) = 0
        /\ Cardinality(Early(F, 0) \cap (steady' \ shown')) = 0
    BY <1>4, <1>6
  <2> DEFINE past == Cardinality(Late(F, 0) \cap shown')
             early == Cardinality(Early(F, 0) \cap (steady' \ shown'))
             ahead == Cardinality(F \ F)
  <2>2. repeats' + past + ahead <= entered' /\ early + ahead <= entered' + left'
    <3>1. past = 0 /\ early = 0 /\ ahead = 0 /\ repeats' = 0
      BY <1>4, <2>1
    <3>2. PICK e \in Nat : e = entered'
      BY <1>4
    <3>3. PICK l \in Nat : l = left'
      BY <1>4
    <3> HIDE DEF past, early, ahead
    <3>4. 0 + past + ahead <= e /\ early + ahead <= e + l
      BY <3>1
    <3> QED BY <3>1, <3>2, <3>3, <3>4
  <2> QED BY <1>1, <1>2, <1>3, <2>2 DEF FlightInv
<1> QED BY <1>3, <1>7 DEF ScrollInv, RestInv, CountedInv, BetweenInv, EndInv

\* The next page.
LEMMA ScrollGoesOn ==
    ASSUME FeedType, ScrollInv, More
    PROVE  ScrollInv'
<1>1. /\ fetch.pc = "more" /\ fetch.query \in Query /\ fetch.page + 1 \in Nat \ {0}
      /\ FindMe(fetch.query, fetch.page + 1) /\ UNCHANGED <<world, scroll>>
  BY DEF More, FeedType
<1>2. PICK F : F = ScrollOf(fetch.query)
  OBVIOUS
<1>3. PICK s : s = Offset
  OBVIOUS
<1>4. /\ fetch'.pc = "count" /\ ListedNow' = F /\ ListedInFlight' = F /\ F \in SUBSET Other
      /\ Offset' = s
  BY <1>1, <1>2, <1>3, FoundIsNow DEF Offset
<1>5. ListedNow = F
  BY <1>1, <1>2 DEF ListedNow
<1>6. /\ steady \subseteq F
      /\ repeats + Cardinality(Late(F, s) \cap shown) <= entered
      /\ Cardinality(Early(F, s) \cap (steady \ shown)) <= entered + left
  BY <1>1, <1>3, <1>5 DEF ScrollInv, BetweenInv
<1>7. /\ Cardinality(F \ F) = 0
      /\ Cardinality(Late(F, s) \cap shown) \in Nat
      /\ Cardinality(Early(F, s) \cap (steady \ shown)) \in Nat
  <2>1. F \ F = {}
    OBVIOUS
  <2>2. Late(F, s) \cap shown \in SUBSET Other /\ Early(F, s) \cap (steady \ shown) \in SUBSET Other
    BY DEF FeedType
  <2> QED BY <2>1, <2>2, UsersFinite, FS_EmptySet
<1>8. /\ repeats \in Nat /\ entered \in Nat /\ left \in Nat
  BY DEF FeedType
<1>9. /\ repeats + Cardinality(Late(F, s) \cap shown) + Cardinality(F \ F) <= entered
      /\ Cardinality(Early(F, s) \cap (steady \ shown)) + Cardinality(F \ F) <= entered + left
  BY <1>6, <1>7, <1>8
<1>10. FlightInv'
  BY <1>1, <1>4, <1>6, <1>9 DEF FlightInv, scroll
<1> QED BY <1>4, <1>10 DEF ScrollInv, RestInv, CountedInv, BetweenInv, EndInv

\* The count.
LEMMA ScrollCounts ==
    ASSUME FeedType, ScrollInv, Count
    PROVE  ScrollInv'
<1>1. /\ fetch.pc = "count" /\ UNCHANGED <<registered, inactive, myDoc, scroll>>
      /\ fetch' = [pc |-> "data", query |-> fetch.query, page |-> fetch.page,
                   filter |-> fetch.filter, total |-> Cardinality(Listed(fetch.filter))]
  BY DEF Count, world
<1>2. PICK F : F = ListedInFlight
  OBVIOUS
<1>3. PICK N : N = ListedNow
  OBVIOUS
<1>4. PICK s : s = Offset
  OBVIOUS
<1>5. /\ fetch'.pc = "data" /\ fetch'.query = fetch.query /\ fetch'.page = fetch.page
      /\ fetch'.filter = fetch.filter /\ fetch'.total = Cardinality(F)
  BY <1>1, <1>2 DEF ListedInFlight
<1>6. ListedInFlight' = F
  BY <1>1, <1>2, <1>5 DEF ListedInFlight, Listed
<1>7. ListedNow' = N
  BY <1>1, <1>3, <1>5 DEF ListedNow, ScrollOf, FilterNow, IdsToExclude, Listed
<1>8. Offset' = s
  BY <1>1, <1>4, <1>5 DEF Offset
<1>9. /\ steady \subseteq N \cap F
      /\ repeats + Cardinality(Late(F, s) \cap shown) + Cardinality(N \ F) <= entered
      /\ Cardinality(Early(F, s) \cap (steady \ shown)) + Cardinality(F \ N) <= entered + left
  BY <1>1, <1>2, <1>3, <1>4 DEF ScrollInv, FlightInv
<1>10. FlightInv'
  BY <1>1, <1>6, <1>7, <1>8, <1>9 DEF FlightInv, scroll
<1>11. Cardinality(Early(F, s) \cap (steady \ shown)) + Cardinality(F)
         <= (entered + left) + Cardinality(F)
  <2>1. /\ F \in SUBSET Other /\ F \ N \in SUBSET Other
        /\ Early(F, s) \cap (steady \ shown) \in SUBSET Other
    BY <1>2, ListsTyped DEF FeedType
  <2>2. /\ Cardinality(F) \in Nat /\ Cardinality(F \ N) \in Nat
        /\ Cardinality(Early(F, s) \cap (steady \ shown)) \in Nat
    BY <2>1, UsersFinite
  <2>3. entered \in Nat /\ left \in Nat
    BY DEF FeedType
  <2> QED BY <1>9, <2>2, <2>3
<1>12. CountedInv'
  BY <1>1, <1>5, <1>6, <1>8, <1>11 DEF CountedInv, scroll
<1> QED BY <1>5, <1>10, <1>12 DEF ScrollInv, RestInv, BetweenInv, EndInv

\* The page.
LEMMA ScrollShows ==
    ASSUME FeedType, ScrollInv, Data
    PROVE  ScrollInv'
<1>1. CASE Forget
  BY <1>1 DEF Forget, Resting, ScrollInv, RestInv, FlightInv, CountedInv, BetweenInv, EndInv
<1>2. CASE ~Forget
  <2>1. PICK F : F = ListedInFlight
    OBVIOUS
  <2>2. PICK N : N = ListedNow
    OBVIOUS
  <2>3. PICK s : s = Offset
    OBVIOUS
  <2>4. PICK t : t = fetch.page * Limit
    OBVIOUS
  <2>5. PICK page : page = PageOf(fetch.filter, fetch.page)
    OBVIOUS
  <2>6. fetch.pc = "data" /\ fetch.page \in Nat \ {0} /\ fetch.total \in Nat
        /\ fetch.query \in Query
    BY DEF Data, FeedType
  <2>7. /\ s \in Nat /\ t \in Nat /\ t = s + Limit /\ s < t /\ s <= t
        /\ s = StartIndex(fetch.page) /\ t = StartIndex(fetch.page + 1) /\ Limit \in Nat
    <3>1. s = StartIndex(fetch.page) /\ s \in Nat /\ t = s + Limit /\ t = StartIndex(fetch.page + 1)
      BY <2>3, <2>4, <2>6, PagesMeet DEF Offset
    <3> QED BY <3>1, LimitAssumption
  <2>8. F \in SUBSET Other /\ N \in SUBSET Other /\ F = Listed(fetch.filter)
    BY <2>1, <2>2, <2>6, ListsTyped DEF ListedInFlight
  <2>9. page = Paged(F, s, t)
    <3>1. \A u \in F : Before(u, F) \in Nat
      BY <2>8, CountBelow
    <3>2. page = {u \in F : Before(u, F) \in s..s + Limit - 1}
      BY <2>5, <2>7, <2>8 DEF PageOf
    <3>3. ASSUME NEW u \in F
          PROVE  Before(u, F) \in s..s + Limit - 1 <=> s <= Before(u, F) /\ Before(u, F) < t
      <4>1. Before(u, F) \in Nat
        BY <3>1
      <4> QED BY <2>7, <4>1
    <3> QED BY <3>2, <3>3 DEF Paged
  <2>10. PICK total : total = IF page = {} THEN 0 ELSE fetch.total
    OBVIOUS
  <2>11. /\ fetch' = [pc |-> IF t < total THEN "more" ELSE "end",
                      query |-> fetch.query, page |-> fetch.page]
         /\ shown' = shown \cup page /\ repeats' = repeats + Cardinality(shown \cap page)
         /\ UNCHANGED <<registered, inactive, myDoc, steady, entered, left>>
    BY <1>2, <2>4, <2>5, <2>10 DEF Data, world
  <2>12. /\ steady \subseteq N \cap F
         /\ repeats + Cardinality(Late(F, s) \cap shown) + Cardinality(N \ F) <= entered
         /\ Cardinality(Early(F, s) \cap (steady \ shown)) + Cardinality(F \ N) <= entered + left
    BY <2>1, <2>2, <2>3, <2>6 DEF ScrollInv, FlightInv
  <2>13. Cardinality(Early(F, s) \cap (steady \ shown)) + Cardinality(F)
           <= (entered + left) + fetch.total
    BY <2>1, <2>3, <2>6 DEF ScrollInv, CountedInv
  <2>14. /\ shown \in SUBSET Other /\ repeats \in Nat /\ entered \in Nat /\ left \in Nat
         /\ entered + left \in Nat /\ steady \subseteq F
    BY <2>12 DEF FeedType
  <2>15. repeats + Cardinality(shown \cap page) + Cardinality(Late(N, t) \cap (shown \cup page))
           <= entered
    <3>1. s \in Int /\ t \in Int
      BY <2>7
    <3>2. repeats + Cardinality(shown \cap Paged(F, s, t))
            + Cardinality(Late(N, t) \cap (shown \cup Paged(F, s, t))) <= entered
      BY <2>7, <2>8, <2>12, <2>14, <3>1, PageRepeats
    <3> QED BY <2>9, <3>2
  <2>16. CASE t < total
    <3>1. fetch'.pc = "more" /\ fetch'.query = fetch.query /\ fetch'.page = fetch.page
      BY <2>11, <2>16
    <3>2. ListedNow' = N
      BY <2>2, <2>6, <2>11, <3>1 DEF ListedNow, ScrollOf, FilterNow, IdsToExclude, Listed
    <3>3. Offset' = t
      BY <2>7, <3>1 DEF Offset
    <3>4. Cardinality(Early(N, t) \cap (steady \ (shown \cup page))) <= entered + left
      <4>1. s \in Int /\ t \in Int
        BY <2>7
      <4>2. PICK bound \in Nat : bound = entered + left
        BY <2>14
      <4>3. Cardinality(Early(F, s) \cap (steady \ shown)) + Cardinality(F \ N) <= bound
        BY <2>12, <4>2
      <4>4. Cardinality(Early(N, t) \cap (steady \ (shown \cup Paged(F, s, t)))) <= bound
        BY <2>7, <2>8, <2>12, <2>14, <4>1, <4>3, PageSkips
      <4> QED BY <2>9, <4>2, <4>4
    <3>5. BetweenInv'
      BY <2>11, <2>12, <2>15, <3>2, <3>3, <3>4 DEF BetweenInv
    <3> QED BY <3>1, <3>5 DEF ScrollInv, RestInv, FlightInv, CountedInv, EndInv
  <2>17. CASE ~(t < total)
    <3>1. fetch'.pc = "end"
      BY <2>11, <2>17
    <3>2. page = {} \/ fetch.total <= t
      BY <2>6, <2>7, <2>10, <2>17
    <3>3. Cardinality(Early(F, s) \cap (steady \ shown)) <= entered + left
      <4>1. /\ Early(F, s) \cap (steady \ shown) \in SUBSET Other /\ F \ N \in SUBSET Other
        BY <2>8, <2>14
      <4>2. /\ Cardinality(Early(F, s) \cap (steady \ shown)) \in Nat
            /\ Cardinality(F \ N) \in Nat
        BY <4>1, UsersFinite
      <4> QED BY <2>12, <2>14, <4>2
    <3>4. Cardinality(steady \ (shown \cup page)) <= entered + left
      BY <2>6, <2>7, <2>8, <2>9, <2>13, <2>14, <3>2, <3>3, LastPage
    <3>5. repeats + Cardinality(shown \cap page) <= entered
      <4>1. shown \cap page \in SUBSET Other /\ Late(N, t) \cap (shown \cup page) \in SUBSET Other
        BY <2>8, <2>14, PartsOfList
      <4>2. /\ Cardinality(shown \cap page) \in Nat
            /\ Cardinality(Late(N, t) \cap (shown \cup page)) \in Nat
        BY <4>1, UsersFinite
      <4> QED BY <2>14, <2>15, <4>2
    <3>6. EndInv'
      BY <2>11, <3>4, <3>5 DEF EndInv
    <3> QED BY <3>1, <3>6 DEF ScrollInv, RestInv, FlightInv, CountedInv, BetweenInv
  <2> QED BY <2>16, <2>17
<1> QED BY <1>1, <1>2

\* Every step keeps the accounts of a scroll.
LEMMA ScrollStep == FeedType /\ ScrollInv /\ [FeedNext]_feedVars => ScrollInv'
<1> SUFFICES ASSUME FeedType, ScrollInv, [FeedNext]_feedVars PROVE ScrollInv'
  OBVIOUS
<1>1. CASE Leave
  BY <1>1 DEF Leave, Forget, Resting, ScrollInv, RestInv, FlightInv, CountedInv, BetweenInv, EndInv
<1>2. CASE UNCHANGED feedVars
  BY <1>2 DEF feedVars, world, scroll, ScrollInv, RestInv, FlightInv, CountedInv, BetweenInv,
     EndInv, ListedNow, ListedInFlight, Offset, ScrollOf, FilterNow, IdsToExclude, Listed
<1> QED
  BY <1>1, <1>2, ScrollOpens, ScrollGoesOn, ScrollCounts, ScrollShows, ScrollChange DEF FeedNext

\* The accounts are balanced at all times.
LEMMA ScrollHolds == FeedSpec => []ScrollInv
<1>1. FeedInit => ScrollInv
  BY DEF FeedInit, Resting, ScrollInv, RestInv, FlightInv, CountedInv, BetweenInv, EndInv
<1> QED BY <1>1, ScrollStep, FeedTypeCorrect, PTL DEF FeedSpec

\* Offset paging passes over nobody but for changes of the list: when a scroll ends,
\* each user who was listed all the time and not shown is paid for by one who entered
\* or left.
THEOREM SkipsArePaid == FeedSpec => []SkippedOnlyByChanges
<1>1. ScrollInv => SkippedOnlyByChanges
  BY DEF ScrollInv, EndInv, SkippedOnlyByChanges
<1> QED BY <1>1, ScrollHolds, PTL

\* Nobody is shown again but for those who entered the list in between.
THEOREM RepeatsArePaid == FeedSpec => []RepeatedOnlyByEntries
<1>1. FeedType /\ ScrollInv => RepeatedOnlyByEntries
  <2> SUFFICES ASSUME FeedType, ScrollInv PROVE repeats <= entered
    BY DEF RepeatedOnlyByEntries
  <2>1. PICK N : N = ListedNow
    OBVIOUS
  <2>2. PICK F : F = ListedInFlight
    OBVIOUS
  <2>3. PICK s : s = Offset
    OBVIOUS
  <2>4. N \in SUBSET Other /\ F \in SUBSET Other /\ shown \in SUBSET Other
        /\ repeats \in Nat /\ entered \in Nat
    BY <2>1, <2>2, ListsTyped DEF FeedType
  <2>5. /\ Late(F, s) \cap shown \in SUBSET Other /\ Late(N, s) \cap shown \in SUBSET Other
        /\ N \ F \in SUBSET Other
    BY <2>4
  <2>6. /\ Cardinality(Late(F, s) \cap shown) \in Nat /\ Cardinality(Late(N, s) \cap shown) \in Nat
        /\ Cardinality(N \ F) \in Nat
    BY <2>5, UsersFinite
  <2>7. CASE fetch.pc = "rest"
    BY <2>4, <2>7 DEF ScrollInv, RestInv
  <2>8. CASE fetch.pc \in {"count", "data"}
    <3>1. repeats + Cardinality(Late(F, s) \cap shown) + Cardinality(N \ F) <= entered
      BY <2>1, <2>2, <2>3, <2>8 DEF ScrollInv, FlightInv
    <3> QED BY <2>4, <2>6, <3>1
  <2>9. CASE fetch.pc = "more"
    <3>1. repeats + Cardinality(Late(N, s) \cap shown) <= entered
      BY <2>1, <2>3, <2>9 DEF ScrollInv, BetweenInv
    <3> QED BY <2>4, <2>6, <3>1
  <2>10. CASE fetch.pc = "end"
    BY <2>10 DEF ScrollInv, EndInv
  <2> QED BY <2>7, <2>8, <2>9, <2>10 DEF FeedType
<1> QED BY <1>1, ScrollHolds, FeedTypeCorrect, PTL

-----------------------------------------------------------------------------
(* The filter.                                                             *)

\* The dates of birth that an age range admits are of ages within it, whatever the
\* day: the inverse of ageToDOB, which turns an age into the first of January.
LEMMA AgesWithin ==
    ASSUME NEW born \in Int, NEW low \in Int, NEW high \in Int,
           born <= AgeToDOB(low), born >= AgeToDOB(high)
    PROVE  {(2 * Year - born) \div 2, (2 * Year + 1 - born) \div 2} \subseteq low..high
<1>1. Year \in Int
  BY LimitAssumption
<1>2. born <= 2 * (Year - low) /\ born >= 2 * (Year - high)
  BY DEF AgeToDOB
<1>3. PICK a \in Int : a = 2 * Year - born
  <2>1. 2 * Year - born \in Int
    BY <1>1
  <2> QED BY <2>1
<1>4. 2 * low <= a /\ a <= 2 * high
  BY <1>1, <1>2, <1>3
<1>5. a \div 2 \in low..high /\ (a + 1) \div 2 \in low..high
  BY <1>4
<1>6. 2 * Year + 1 - born = a + 1
  BY <1>1, <1>3
<1> QED BY <1>3, <1>5, <1>6

\* A distance within another.
LEMMA NearerReached ==
    ASSUME NEW u \in Other, NEW near \in Int, NEW far \in Int, near <= far, InReach(u, near)
    PROVE  InReach(u, far)
<1>1. Profile[u].miles \in Int
  BY ProfileAssumption
<1> QED BY <1>1 DEF InReach

\* Whom the filter lets through is wanted.
LEMMA FitsAreWanted ==
    ASSUME NEW u \in Other, NEW f, f.query \in Query, f.paid \in BOOLEAN, Fits(u, f)
    PROVE  Wanted(u, f)
<1> DEFINE q == f.query
           miles == AllowedMiles(q.maxDistance, f.paid)
<1>1. /\ NicheOf(q) # {} => Profile[u].niche \in NicheOf(q)
      /\ InAgeRange(u, q)
      /\ f.paid /\ q.minFollowers # 0 => Profile[u].followers >= q.minFollowers
      /\ f.paid /\ q.maxFollowers # 0 => Profile[u].followers <= q.maxFollowers
      /\ miles > 0 /\ f.place => InReach(u, miles)
  BY DEF Fits
<1>2. /\ q.minAge # None => q.minAge \in Int
      /\ q.maxAge \in Int /\ q.maxDistance \in Int /\ Profile[u].born \in Int
  BY QueryAssumption, ProfileAssumption
<1>3. BothAges(q) =>
         {(2 * Year - Profile[u].born) \div 2, (2 * Year + 1 - Profile[u].born) \div 2}
            \subseteq q.minAge..q.maxAge
  <2> SUFFICES ASSUME BothAges(q)
               PROVE  {(2 * Year - Profile[u].born) \div 2, (2 * Year + 1 - Profile[u].born) \div 2}
                         \subseteq q.minAge..q.maxAge
    OBVIOUS
  <2>1. Profile[u].born <= AgeToDOB(q.minAge) /\ Profile[u].born >= AgeToDOB(q.maxAge)
    BY <1>1 DEF InAgeRange
  <2>2. q.minAge \in Int
    BY <1>2 DEF BothAges
  <2> HIDE DEF q
  <2> QED BY <1>2, <2>1, <2>2, AgesWithin
<1>4. LocalMiles \in Nat \ {0}
  BY LimitAssumption
<1>5. f.place /\ q.maxDistance > 0 => InReach(u, q.maxDistance)
  <2> SUFFICES ASSUME f.place, q.maxDistance > 0 PROVE InReach(u, q.maxDistance)
    OBVIOUS
  <2>1. miles \in Int /\ 0 < miles /\ miles <= q.maxDistance
    BY <1>2, <1>4 DEF AllowedMiles
  <2>2. InReach(u, miles)
    <3> HIDE DEF miles, q
    <3> QED BY <1>1, <2>1
  <2> HIDE DEF miles, q
  <2> QED BY <1>2, <2>1, <2>2, NearerReached
<1>6. f.place /\ ~f.paid /\ q.maxDistance >= 0 => InReach(u, LocalMiles)
  <2> SUFFICES ASSUME f.place, ~f.paid, q.maxDistance >= 0 PROVE InReach(u, LocalMiles)
    OBVIOUS
  <2>1. miles \in Int /\ 0 < miles /\ miles <= LocalMiles
    BY <1>2, <1>4 DEF AllowedMiles
  <2>2. InReach(u, miles)
    <3> HIDE DEF miles, q
    <3> QED BY <1>1, <2>1
  <2> HIDE DEF miles, q
  <2> QED BY <1>4, <2>1, <2>2, NearerReached
<1>7. q.niche # {} => Profile[u].niche \in q.niche
  BY <1>1 DEF NicheOf
<1> QED BY <1>1, <1>3, <1>5, <1>6, <1>7 DEF Wanted

\* Nobody is shown whom the filters rule out, for any profiles and any numbers in
\* the filters, the ones below 0 included, whatever tier and place change meanwhile.
THEOREM OnlyAsAsked == FeedSpec => []ShownAsAsked
<1>1. FeedInit => ShownAsAsked
  BY DEF FeedInit, ShownAsAsked
<1>2. FeedType /\ ShownAsAsked /\ [FeedNext]_feedVars => ShownAsAsked'
  <2> SUFFICES ASSUME FeedType, asAsked, [FeedNext]_feedVars PROVE asAsked'
    BY DEF ShownAsAsked
  <2>1. CASE Data
    <3>1. ASSUME NEW u \in PageOf(fetch.filter, fetch.page) PROVE Wanted(u, fetch.filter)
      <4>1. u \in Listed(fetch.filter)
        BY DEF PageOf
      <4>2. u \in Other /\ Fits(u, fetch.filter)
        BY <4>1, ListedOnly DEF Listed
      <4>3. fetch.filter.query \in Query /\ fetch.filter.paid \in BOOLEAN
        BY <2>1 DEF Data, FeedType
      <4> QED BY <4>2, <4>3, FitsAreWanted
    <3> QED BY <2>1, <3>1 DEF Data, Forget
  <2>2. CASE ~Data
    <3>1. UNCHANGED asAsked
      BY <2>2 DEF FeedNext, Open, More, Count, Leave, Forget, Change, Recorded, feedVars, scroll
    <3> QED BY <3>1
  <2> QED BY <2>1, <2>2
<1> QED BY <1>1, <1>2, FeedTypeCorrect, PTL DEF FeedSpec
=============================================================================
