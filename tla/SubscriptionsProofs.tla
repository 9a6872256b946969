------------------------- MODULE SubscriptionsProofs -------------------------
(***************************************************************************)
(* The swipe quota for every number of requests in flight, every limit and *)
(* every calendar; then subscriptions for any purchases, verifications and *)
(* requests: what they do to the quota is what Swipes allows, so its       *)
(* theorems hold with real purchases, and a verified receipt is cut short  *)
(* by a product id alone.                                                  *)
(***************************************************************************)
EXTENDS Subscriptions, FiniteSetTheorems, TLAPS

-----------------------------------------------------------------------------
(* Swipes: the quota over a tier that changes freely.                      *)

USE RequestAssumption, LimitAssumption, MaxDayAssumption, MaxSentAssumption

\* The quota starts in its types.
LEMMA TypeStart == Init => TypeOK
<1> USE DEF TypeOK, RequestState, StoredDay, Day, NoDay, doc, history
<1> SUFFICES ASSUME Init PROVE TypeOK
  OBVIOUS
<1>1. Idle \in RequestState
  BY DEF Idle
<1>2. req \in [Request -> RequestState]
  BY <1>1 DEF Init
<1>3. \A r \in Request : req[r].pc = "idle"
  BY DEF Init, Idle
<1>4. 1 \in Day
  OBVIOUS
<1> QED
  BY <1>2, <1>3, <1>4 DEF Init

\* Every step keeps the quota fields, the requests and the history in their
\* types: in particular no day is written that the clock has not shown.
LEMMA TypeStep == TypeOK /\ [Next]_vars => TypeOK'
<1> USE DEF TypeOK, RequestState, StoredDay, Day, NoDay, doc, history
<1> SUFFICES ASSUME TypeOK, [Next]_vars PROVE TypeOK'
  OBVIOUS
<1>1. ASSUME NEW r \in Request, Read(r) PROVE TypeOK'
  BY <1>1 DEF Read
<1>2. ASSUME NEW r \in Request, SeeNewDay(r) PROVE TypeOK'
  <2> DEFINE q == [req[r] EXCEPT !.pc = "reset", !.count = 0, !.today = clock]
  <2>1. req' = [req EXCEPT ![r] = q]
    BY <1>2 DEF SeeNewDay
  <2>2. q \in RequestState /\ q.today \in Day
    OBVIOUS
  <2>3. UNCHANGED <<clock, unlimited, swipeDayUtc, swipeCountDay, sent,
                    granted, total, paid, overlapped>>
    BY <1>2 DEF SeeNewDay
  <2> HIDE DEF q
  <2> QED
    BY <2>1, <2>2, <2>3
<1>3. ASSUME NEW r \in Request, Refuse(r) PROVE TypeOK'
  BY <1>3 DEF Refuse, Idle
<1>4. ASSUME NEW r \in Request, Allow(r) PROVE TypeOK'
  BY <1>4 DEF Allow
<1>5. ASSUME NEW r \in Request, Reset(r) PROVE TypeOK'
  BY <1>5 DEF Reset
<1>6. ASSUME NEW r \in Request, Increment(r) PROVE TypeOK'
  BY <1>6 DEF Increment, Idle
<1>7. CASE Midnight
  BY <1>7 DEF Midnight
<1>8. CASE ChangeTier
  BY <1>8 DEF ChangeTier
<1>9. CASE Crash
  BY <1>9 DEF Crash, Idle
<1>10. CASE UNCHANGED vars
  BY <1>10 DEF vars
<1> QED
  BY <1>1, <1>2, <1>3, <1>4, <1>5, <1>6, <1>7, <1>8, <1>9, <1>10
  DEF Next, Step

\* The types of the swipe quota, for every calendar and every limit.
THEOREM TypeCorrect == Spec => []TypeOK
BY TypeStart, TypeStep, PTL DEF Spec

-----------------------------------------------------------------------------
(* The overrun of the counter.                                             *)

\* The requests of a limited tier that will increment unless they meet a new
\* day first: each has seen a count below the limit.
Committed ==
    {r \in Request :
        /\ ~req[r].unlimited
        /\ \/ req[r].pc = "increment"
           \/ req[r].pc = "decide" /\ req[r].count < Limit}

\* The counter and the increments still to come share the bound, so that an
\* increment moves one unit from the second to the first.
OverrunInv ==
    swipeCountDay + Cardinality(Committed) <= (Limit - 1) + Cardinality(Request) + paid

\* The number of committed requests never exceeds the number of requests.
LEMMA CommittedFinite ==
    /\ IsFiniteSet(Committed)
    /\ Cardinality(Committed) \in Nat
    /\ Cardinality(Request) \in Nat
    /\ Cardinality(Committed) <= Cardinality(Request)
<1>1. Committed \subseteq Request
  BY DEF Committed
<1> QED
  BY <1>1, FS_Subset, FS_CardinalityType

\* The same fact about the state after a step.
LEMMA CommittedFiniteNext ==
    /\ IsFiniteSet(Committed')
    /\ Cardinality(Committed') \in Nat
    /\ Cardinality(Committed') <= Cardinality(Request)
<1>1. Committed' \subseteq Request
  BY DEF Committed
<1> QED
  BY <1>1, FS_Subset, FS_CardinalityType

\* A step that commits no request cannot raise the number committed.
LEMMA CommittedShrinks ==
    ASSUME Committed' \subseteq Committed
    PROVE  Cardinality(Committed') <= Cardinality(Committed)
BY CommittedFinite, FS_Subset

\* However many requests overlap, the stored counter passes the limit by less
\* than the number of requests in flight together: consumeSwipeForLike reads
\* and increments in two calls, and this is all that its race can cost.
THEOREM OverrunBounded == Spec => []CounterOverrunBounded
<1> DEFINE Inv == TypeOK /\ OverrunInv
<1>1. Init => OverrunInv
  <2> SUFFICES ASSUME Init PROVE OverrunInv
    OBVIOUS
  <2>1. Committed = {}
    BY DEF Init, Committed, Idle
  <2>2. Cardinality(Committed) = 0
    BY <2>1, FS_EmptySet
  <2> QED
    BY <2>2, CommittedFinite DEF Init, OverrunInv
<1>2. TypeOK /\ TypeOK' /\ OverrunInv /\ [Next]_vars => OverrunInv'
  <2> SUFFICES ASSUME TypeOK, TypeOK', OverrunInv, [Next]_vars PROVE OverrunInv'
    OBVIOUS
  <2>0. /\ swipeCountDay \in Nat /\ swipeCountDay' \in Nat
        /\ paid \in Nat /\ paid' \in Nat
        /\ Limit \in Nat \ {0}
    BY DEF TypeOK
  <2>a. ASSUME Committed' \subseteq Committed, swipeCountDay' = swipeCountDay, paid' = paid
        PROVE  OverrunInv'
    BY <2>a, <2>0, CommittedShrinks, CommittedFinite, CommittedFiniteNext DEF OverrunInv
  <2>1. ASSUME NEW r \in Request, Read(r) PROVE OverrunInv'
    <3>1. CASE swipeCountDay < Limit
      BY <2>1, <3>1, <2>0, CommittedFiniteNext, CommittedFinite DEF Read, OverrunInv, doc
    <3>2. CASE ~(swipeCountDay < Limit)
      <4>1. Committed' \subseteq Committed
        BY <2>1, <3>2 DEF Read, Committed, TypeOK
      <4> QED
        BY <2>1, <4>1, <2>a DEF Read, doc
    <3> QED
      BY <3>1, <3>2
  <2>2. ASSUME NEW r \in Request, SeeNewDay(r) PROVE OverrunInv'
    <3>1. Committed' \subseteq Committed
      BY <2>2 DEF SeeNewDay, Committed, TypeOK
    <3> QED
      BY <2>2, <3>1, <2>a DEF SeeNewDay, doc, history
  <2>3. ASSUME NEW r \in Request, Refuse(r) PROVE OverrunInv'
    <3>1. Committed' \subseteq Committed
      BY <2>3 DEF Refuse, Committed, TypeOK, Idle
    <3> QED
      BY <2>3, <3>1, <2>a DEF Refuse, doc, history
  <2>4. ASSUME NEW r \in Request, Allow(r) PROVE OverrunInv'
    <3>1. Committed' \subseteq Committed
      BY <2>4 DEF Allow, Committed, TypeOK, HasQuota
    <3> QED
      BY <2>4, <3>1, <2>a DEF Allow, doc, history
  <2>5. ASSUME NEW r \in Request, Reset(r) PROVE OverrunInv'
    BY <2>5, <2>0, CommittedFinite, CommittedFiniteNext DEF Reset, OverrunInv
  <2>6. ASSUME NEW r \in Request, Increment(r) PROVE OverrunInv'
    <3>0. /\ swipeCountDay' = swipeCountDay + 1
          /\ req' = [req EXCEPT ![r] = Idle]
          /\ req[r].pc = "increment"
      BY <2>6 DEF Increment
    <3>1. CASE req[r].unlimited
      <4>1. Committed' \subseteq Committed
        BY <3>0 DEF Committed, TypeOK, Idle
      <4>2. paid' = paid + 1
        BY <2>6, <3>1 DEF Increment
      <4> QED
        BY <4>1, <4>2, <3>0, <2>0, CommittedShrinks, CommittedFinite, CommittedFiniteNext
        DEF OverrunInv
    <3>2. CASE ~req[r].unlimited
      <4>1. r \in Committed
        BY <3>0, <3>2 DEF Committed
      <4>2. Committed' = Committed \ {r}
        BY <3>0 DEF Committed, TypeOK, Idle
      <4>3. Cardinality(Committed') = Cardinality(Committed) - 1
        BY <4>1, <4>2, CommittedFinite, FS_RemoveElement
      <4>4. paid' = paid
        BY <2>6, <3>2, <2>0 DEF Increment
      <4> QED
        BY <4>3, <4>4, <3>0, <2>0, CommittedFinite DEF OverrunInv
    <3> QED
      BY <3>1, <3>2
  <2>7. CASE Midnight
    BY <2>7, <2>a DEF Midnight, Committed, doc, history
  <2>8. CASE ChangeTier
    BY <2>8, <2>a DEF ChangeTier, Committed, doc, history
  <2>9. CASE Crash
    <3>1. Committed' \subseteq Committed
      BY <2>9 DEF Crash, Committed, Idle
    <3> QED
      BY <2>9, <3>1, <2>a DEF Crash, doc, history
  <2>10. CASE UNCHANGED vars
    BY <2>10, <2>a DEF vars, Committed, doc, history
  <2> QED
    BY <2>1, <2>2, <2>3, <2>4, <2>5, <2>6, <2>7, <2>8, <2>9, <2>10 DEF Next, Step
<1>3. TypeOK /\ OverrunInv => CounterOverrunBounded
  BY CommittedFinite DEF TypeOK, OverrunInv, CounterOverrunBounded
<1> QED
  BY <1>1, <1>2, <1>3, TypeCorrect, PTL DEF Spec

-----------------------------------------------------------------------------
(* The limit while requests do not overlap.                                *)

\* What one request may assume when no other is in flight.
RequestInv(r) ==
    LET q == req[r]
    IN  /\ q.pc = "decide" => q.count = swipeCountDay /\ q.day = swipeDayUtc
        /\ q.pc = "reset" => q.today <= clock /\ swipeDayUtc < q.today
        /\ q.pc = "increment" => /\ q.today = swipeDayUtc
                                 /\ q.unlimited \/ swipeCountDay < Limit

\* The counter is the number of swipes of the stored day, later days have
\* none yet, and limited swipes are among all swipes.
QuotaInv ==
    /\ swipeDayUtc <= clock
    /\ swipeDayUtc = NoDay => swipeCountDay = 0
    /\ \A d \in Day : d = swipeDayUtc => total[d] = swipeCountDay
    /\ \A d \in Day : swipeDayUtc < d => total[d] = 0
    /\ \A d \in Day : granted[d] <= total[d]
    /\ \A d \in Day : granted[d] <= Limit

SerialInv ==
    ~overlapped => /\ \A r, s \in Active : r = s
                   /\ \A r \in Request : RequestInv(r)
                   /\ QuotaInv

\* As long as no two requests of the user have been in flight together, the
\* one at work knows the document and the counter tells the swipes of its day.
LEMMA SerialHolds == Spec => []SerialInv
<1> USE DEF NoDay
<1>1. Init => SerialInv
  BY DEF Init, SerialInv, Active, RequestInv, QuotaInv, Idle, Day
<1>2. TypeOK /\ TypeOK' /\ SerialInv /\ [Next]_vars => SerialInv'
  <2> SUFFICES ASSUME TypeOK, TypeOK', SerialInv, [Next]_vars, ~overlapped'
               PROVE  SerialInv'
    BY DEF SerialInv
  <2>0. ~overlapped
    BY DEF Next, Step, Read, SeeNewDay, Refuse, Allow, Reset, Increment,
           Midnight, ChangeTier, Crash, vars, history, TypeOK
  <2>a. /\ \A r, s \in Active : r = s
        /\ \A r \in Request : RequestInv(r)
        /\ QuotaInv
    BY <2>0 DEF SerialInv
  <2>b. /\ swipeCountDay \in Nat /\ clock \in Nat /\ swipeDayUtc \in Nat
        /\ clock \in Day
        /\ Day \subseteq Nat \ {0}
        /\ total \in [Day -> Nat] /\ granted \in [Day -> Nat]
        /\ Limit \in Nat \ {0}
    <3>1. Day \subseteq Nat \ {0}
      BY DEF Day
    <3> QED
      BY <3>1 DEF TypeOK, StoredDay
  <2>c. ASSUME NEW r \in Request, r \in Active,
               \A s \in Request : s # r => req'[s] = req[s],
               RequestInv(r)', QuotaInv'
        PROVE  SerialInv'
    <3>1. \A s \in Request : s # r => req'[s].pc = "idle"
      BY <2>a, <2>c DEF Active
    <3>2. \A s, t \in Active' : s = t
      BY <3>1 DEF Active
    <3>3. \A s \in Request : RequestInv(s)'
      BY <3>1, <2>c DEF RequestInv
    <3> QED
      BY <3>2, <3>3, <2>c DEF SerialInv
  <2>1. ASSUME NEW r \in Request, Read(r) PROVE SerialInv'
    <3>1. Active = {}
      BY <2>1 DEF Read, TypeOK
    <3>2. \A s \in Request : s # r => req'[s].pc = "idle"
      BY <2>1, <3>1 DEF Read, Active, TypeOK
    <3>3. \A s, t \in Active' : s = t
      BY <3>2 DEF Active
    <3>4. \A s \in Request : RequestInv(s)'
      BY <2>1, <3>2 DEF Read, RequestInv, TypeOK, doc
    <3>5. QuotaInv'
      BY <2>1, <2>a DEF Read, QuotaInv, doc
    <3> QED
      BY <3>3, <3>4, <3>5 DEF SerialInv
  <2>2. ASSUME NEW r \in Request, SeeNewDay(r) PROVE SerialInv'
    <3>1. QuotaInv'
      BY <2>2, <2>a DEF SeeNewDay, QuotaInv, doc, history
    <3>2. RequestInv(r)'
      BY <2>2, <2>a, <2>b DEF SeeNewDay, RequestInv, QuotaInv, TypeOK, doc
    <3> QED
      BY <3>1, <3>2, <2>2, <2>c DEF SeeNewDay, Active, TypeOK
  <2>3. ASSUME NEW r \in Request, Refuse(r) PROVE SerialInv'
    <3>1. QuotaInv'
      BY <2>3, <2>a DEF Refuse, QuotaInv, doc, history
    <3>2. RequestInv(r)'
      BY <2>3 DEF Refuse, RequestInv, Idle, TypeOK
    <3> QED
      BY <3>1, <3>2, <2>3, <2>c DEF Refuse, Active, TypeOK
  <2>4. ASSUME NEW r \in Request, Allow(r) PROVE SerialInv'
    <3>1. QuotaInv'
      BY <2>4, <2>a DEF Allow, QuotaInv, doc, history
    <3>2. RequestInv(r)'
      BY <2>4, <2>a DEF Allow, RequestInv, HasQuota, TypeOK, doc
    <3> QED
      BY <3>1, <3>2, <2>4, <2>c DEF Allow, Active, TypeOK
  <2>5. ASSUME NEW r \in Request, Reset(r) PROVE SerialInv'
    <3>1. QuotaInv'
      BY <2>5, <2>a, <2>b DEF Reset, QuotaInv, RequestInv, TypeOK
    <3>2. RequestInv(r)'
      BY <2>5, <2>b DEF Reset, RequestInv, TypeOK
    <3> QED
      BY <3>1, <3>2, <2>5, <2>c DEF Reset, Active, TypeOK
  <2>6. ASSUME NEW r \in Request, Increment(r) PROVE SerialInv'
    <3> DEFINE d == req[r].today
    <3>0. /\ req[r].pc = "increment"
          /\ d = swipeDayUtc /\ d \in Day
          /\ req[r].unlimited \/ swipeCountDay < Limit
          /\ swipeDayUtc' = d
          /\ swipeCountDay' = swipeCountDay + 1
          /\ clock' = clock
          /\ total' = [total EXCEPT ![d] = @ + 1]
          /\ granted' = [granted EXCEPT ![d] = @ + (IF ~req[r].unlimited THEN 1 ELSE 0)]
      BY <2>6, <2>a DEF Increment, RequestInv, TypeOK
    <3>1. QuotaInv'
      <4> HIDE DEF d
      <4>1. /\ total[d] = swipeCountDay
            /\ granted[d] <= total[d]
            /\ granted[d] <= Limit
        BY <3>0, <2>a DEF QuotaInv
      <4>2. total'[d] = swipeCountDay + 1 /\ granted'[d] <= total'[d] /\ granted'[d] <= Limit
        BY <3>0, <4>1, <2>b
      <4>3. \A e \in Day : e # d => total'[e] = total[e] /\ granted'[e] = granted[e]
        BY <3>0, <2>b
      <4> QED
        BY <3>0, <4>2, <4>3, <2>a, <2>b DEF QuotaInv
    <3>2. RequestInv(r)'
      BY <2>6 DEF Increment, RequestInv, Idle, TypeOK
    <3> QED
      BY <3>1, <3>2, <2>6, <2>c DEF Increment, Active, TypeOK
  <2>7. CASE Midnight
    <3>1. QuotaInv'
      BY <2>7, <2>a, <2>b DEF Midnight, QuotaInv, doc, history
    <3>2. \A s \in Request : RequestInv(s)'
      <4>1. \A s \in Request : req[s].today \in Nat
        <5>1. StoredDay \subseteq Nat
          BY <2>b DEF StoredDay
        <5>2. \A s \in Request : req[s] \in RequestState
          BY DEF TypeOK
        <5> QED
          BY <5>1, <5>2 DEF RequestState
      <4> QED
        BY <4>1, <2>7, <2>a, <2>b DEF Midnight, RequestInv, doc
    <3> QED
      BY <3>1, <3>2, <2>7, <2>a DEF Midnight, SerialInv, Active
  <2>8. CASE ChangeTier
    BY <2>8, <2>a DEF ChangeTier, SerialInv, Active, RequestInv, QuotaInv, doc, history
  <2>9. CASE Crash
    <3>1. \A s \in Request : req'[s].pc = "idle"
      BY <2>9 DEF Crash, Idle
    <3>2. QuotaInv'
      BY <2>9, <2>a DEF Crash, QuotaInv, doc, history
    <3> QED
      BY <3>1, <3>2 DEF SerialInv, Active, RequestInv
  <2>10. CASE UNCHANGED vars
    BY <2>10, <2>a DEF vars, SerialInv, Active, RequestInv, QuotaInv, doc, history
  <2> QED
    BY <2>1, <2>2, <2>3, <2>4, <2>5, <2>6, <2>7, <2>8, <2>9, <2>10 DEF Next, Step
<1> QED
  BY <1>1, <1>2, TypeCorrect, PTL DEF Spec

\* With no two requests of the user in flight together, no day grants a
\* limited tier more than Limit swipes: the reset, the midnight and the
\* restart hazards of consumeSwipeForLike need a second request to bite.
THEOREM LimitKept == Spec => []LimitKeptOneAtATime
<1>1. SerialInv => LimitKeptOneAtATime
  BY DEF SerialInv, QuotaInv, LimitKeptOneAtATime
<1> QED
  BY <1>1, SerialHolds, PTL

\* And nobody is refused early: the counter that the refusal compares is the
\* number of swipes the day has granted, after any reset, midnight or restart.
THEOREM RefusedWhenSpent == Spec => RefusedOnlyWhenSpent
<1>1. ASSUME TypeOK, SerialInv, NEW r \in Request, Refuse(r), ~overlapped
      PROVE  total[clock] >= Limit
  <2>1. /\ req[r].pc = "decide" /\ req[r].day = clock
        /\ ~(req[r].count < Limit)
    BY <1>1 DEF Refuse, HasQuota
  <2>2. RequestInv(r) /\ QuotaInv
    BY <1>1 DEF SerialInv
  <2>3. clock = swipeDayUtc /\ clock \in Day
    BY <2>1, <2>2, <1>1 DEF RequestInv, TypeOK
  <2>4. total[clock] = swipeCountDay
    BY <2>2, <2>3 DEF QuotaInv
  <2>5. swipeCountDay \in Nat /\ ~(swipeCountDay < Limit)
    BY <2>1, <2>2, <1>1 DEF RequestInv, TypeOK
  <2> QED
    BY <2>4, <2>5
<1>2. TypeOK /\ SerialInv /\ [Next]_vars =>
         [\A r \in Request : Refuse(r) /\ ~overlapped => total[clock] >= Limit]_vars
  BY <1>1
<1> QED
  BY <1>2, SerialHolds, TypeCorrect, PTL DEF Spec, RefusedOnlyWhenSpent

-----------------------------------------------------------------------------
(* Subscriptions: the tier is that of the stored plan.                     *)

USE MonthAssumption, PeriodAssumption, ProductAssumption

Receipt == [tier : Paid, expires : Nat]
Asking == [pc |-> "askApple"]
Writing == [pc : {"write"}, tier : Paid, expires : Nat, receipt : BOOLEAN, nth : Nat]

\* A request that is not in flight carries nothing over from the last one.
Blank == \A r \in Request : req[r].pc = "idle" => req[r] = Idle

\* Subscriptions end at noon.
Noons ==
    /\ \A i \in DOMAIN purchases : IsNoon(purchases[i].expires)
    /\ \A v \in Verification : ver[v].pc = "write" => IsNoon(ver[v].expires)
    /\ subscriptionExpiresAt # Never => IsNoon(subscriptionExpiresAt)

SubInv == TypeOK /\ SubTypeOK /\ Blank /\ Noons

-----------------------------------------------------------------------------
(* The refinement.                                                         *)

\* Every step of the subscription is a step of the quota, or none at all.
LEMMA StepMaps == SubInv /\ [SubNext]_subVars => [Next]_vars
<1> SUFFICES ASSUME SubInv, [SubNext]_subVars PROVE [Next]_vars
  OBVIOUS
<1>0. unlimited \in BOOLEAN
  BY DEF SubInv, TypeOK
<1>a. ASSUME UNCHANGED <<clock, doc, req, sent, history>>, unlimited' \in BOOLEAN
      PROVE  [Next]_vars
  <2>1. CASE unlimited' = unlimited
    BY <1>a, <2>1 DEF vars
  <2>2. CASE unlimited' = ~unlimited
    BY <1>a, <2>2 DEF Next, ChangeTier
  <2> QED BY <1>0, <1>a, <2>1, <2>2
<1>b. \A t, e, n : Effective(t, e, n) \in BOOLEAN
  BY DEF Effective
<1>1. ASSUME NEW r \in Request, Swipe(r) PROVE [Next]_vars
  BY <1>1 DEF Swipe, Next
<1>2. ASSUME NEW v \in Verification,
             \/ VerifyReceipt(v) \/ VerifyProduct(v) \/ AppleAnswers(v) \/ AppleRefuses(v)
      PROVE  [Next]_vars
  <2>1. UNCHANGED vars
    BY <1>2 DEF VerifyReceipt, VerifyProduct, Start, AppleAnswers, AppleRefuses
  <2> QED BY <2>1
<1>3. ASSUME NEW v \in Verification, WriteTier(v) PROVE [Next]_vars
  BY <1>3, <1>a, <1>b DEF WriteTier
<1>4. CASE Buy
  BY <1>4 DEF Buy
<1>5. CASE HalfDay
  <2>1. CASE Midnight
    BY <2>1 DEF Next
  <2>2. CASE ~Midnight
    BY <1>5, <2>2, <1>a, <1>b DEF HalfDay
  <2> QED BY <2>1, <2>2
<1>6. CASE SubCrash
  <2>1. CASE Active # {}
    BY <1>6, <2>1 DEF SubCrash, Next, Crash
  <2>2. CASE Active = {}
    <3>1. \A r \in Request : req[r] = Idle
      BY <2>2 DEF Active, SubInv, Blank
    <3>2. req' = req
      BY <1>6, <3>1 DEF SubCrash, SubInv, TypeOK
    <3> QED BY <1>6, <3>2 DEF SubCrash, vars
  <2> QED BY <2>1, <2>2
<1>7. CASE UNCHANGED subVars
  BY <1>7 DEF subVars
<1> QED BY <1>1, <1>2, <1>3, <1>4, <1>5, <1>6, <1>7 DEF SubNext

\* The quota never leaves anything in a request that has ended.
LEMMA BlankStep == TypeOK /\ Blank /\ [Next]_vars => Blank'
<1> SUFFICES ASSUME TypeOK, Blank, [Next]_vars PROVE Blank'
  OBVIOUS
<1>1. ASSUME NEW r \in Request, Step(r) PROVE Blank'
  <2>1. \A q \in Request : q # r => req'[q] = req[q]
    BY <1>1 DEF Step, Read, SeeNewDay, Refuse, Allow, Reset, Increment, TypeOK
  <2>2. req'[r].pc = "idle" => req'[r] = Idle
    BY <1>1 DEF Step, Read, SeeNewDay, Refuse, Allow, Reset, Increment, TypeOK, RequestState
  <2> QED BY <2>1, <2>2 DEF Blank
<1>2. CASE Crash
  BY <1>2 DEF Crash, Blank
<1>3. CASE Midnight \/ ChangeTier \/ UNCHANGED vars
  BY <1>3 DEF Midnight, ChangeTier, vars, Blank
<1> QED BY <1>1, <1>2, <1>3 DEF Next

-----------------------------------------------------------------------------
(* Types: the clock of the quota is the day of the half day, and its tier  *)
(* is the effective one at every moment.                                   *)

\* Half days and days keep step, and noon comes once a day.
LEMMA HalfDays ==
    ASSUME NEW t \in Nat
    PROVE  /\ IsNoon(t) => ~IsNoon(t + 1) /\ DayOf(t + 1) = DayOf(t)
           /\ ~IsNoon(t) => IsNoon(t + 1) /\ DayOf(t + 1) = DayOf(t) + 1
BY DEF IsNoon, DayOf

\* A subscription that begins today ends at a noon, and not before it begins.
LEMMA GoodForNoon ==
    ASSUME clock \in Nat, NEW days \in Nat \ {0}
    PROVE  GoodFor(days) \in Nat /\ IsNoon(GoodFor(days))
BY DEF GoodFor, IsNoon

\* The subscription starts in its types.
LEMMA SubStart == SubInit => SubInv
<1> SUFFICES ASSUME SubInit PROVE SubInv
  OBVIOUS
<1>1. TypeOK
  BY TypeStart DEF SubInit
<1>2. Blank
  BY DEF SubInit, Init, Blank
<1>3. SubTypeOK
  <2>1. clock = DayOf(time) /\ time \in 1..(2 * MaxDay)
    BY DEF SubInit, Init, DayOf
  <2>2. purchases \in Seq([tier : Paid, expires : Nat])
    BY DEF SubInit
  <2>3. unlimited = Effective(subscriptionTier, subscriptionExpiresAt, time)
    BY DEF SubInit, Init, Effective
  <2>4. /\ subscriptionExpiresAt \in Nat /\ confirmed \in Nat /\ fallback \in Nat
        /\ answers \in Nat /\ written \in Nat
    BY DEF SubInit, Never
  <2> QED BY <2>1, <2>2, <2>3, <2>4 DEF SubInit, SubTypeOK
<1>4. Noons
  BY DEF SubInit, Noons, VerIdle
<1> QED BY <1>1, <1>2, <1>3, <1>4 DEF SubInv

\* What was written of late, which most steps leave alone, keeps its types.
Recorded ==
    /\ confirmed \in Nat /\ fallback \in Nat /\ answers \in Nat /\ written \in Nat
    /\ reordered \in BOOLEAN

\* A verification that goes on: what it is to write ends at a noon.
LEMMA VerMoves ==
    ASSUME SubInv, NEW v \in Verification, NEW q \in {VerEnded, Asking} \cup Writing,
           ver' = [ver EXCEPT ![v] = q], q.pc = "write" => IsNoon(q.expires),
           UNCHANGED <<clock, unlimited, time, purchases, user, record>>, answers' \in Nat
    PROVE  SubTypeOK' /\ Noons'
<1>1. ver \in [Verification -> {VerIdle, VerEnded, Asking} \cup Writing]
  BY DEF SubInv, SubTypeOK, Asking, Writing
<1>2. ver' \in [Verification -> {VerIdle, VerEnded, Asking} \cup Writing]
  BY <1>1
<1>3. SubTypeOK'
  BY <1>2 DEF user, record, SubInv, SubTypeOK, Writing, Asking
<1>4. \A w \in Verification : ver'[w].pc = "write" => IsNoon(ver'[w].expires)
  BY <1>1 DEF SubInv, Noons
<1> QED BY <1>3, <1>4 DEF user, SubInv, Noons

\* Every step keeps the types and the noons.
LEMMA SubTypeStep == SubInv /\ [SubNext]_subVars => SubTypeOK' /\ Noons'
<1> SUFFICES ASSUME SubInv, [SubNext]_subVars PROVE SubTypeOK' /\ Noons'
  OBVIOUS
<1>0. /\ clock \in Nat /\ time \in Nat
      /\ purchases \in Seq(Receipt)
      /\ ver \in [Verification -> {VerIdle, VerEnded, Asking} \cup Writing]
      /\ Recorded
  BY DEF SubInv, SubTypeOK, DayOf, Receipt, Asking, Writing, Recorded
<1>b. \A i \in DOMAIN purchases : purchases[i] \in Receipt
  BY <1>0
<1>c. ASSUME NEW tier \in Paid, NEW expires \in Nat, NEW receipt \in BOOLEAN
      PROVE  /\ ToWrite(tier, expires, receipt) \in Writing
             /\ ToWrite(tier, expires, receipt).expires = expires
             /\ answers + 1 \in Nat
  BY <1>0 DEF ToWrite, Writing, Recorded
<1>1. ASSUME NEW r \in Request, Swipe(r) PROVE SubTypeOK' /\ Noons'
  <2>1. UNCHANGED <<clock, unlimited, sub>>
    BY <1>1 DEF Swipe, Step, Read, SeeNewDay, Refuse, Allow, Reset, Increment
  <2> QED BY <2>1 DEF sub, user, record, SubInv, SubTypeOK, Noons
<1>3. ASSUME NEW v \in Verification, VerifyReceipt(v) PROVE SubTypeOK' /\ Noons'
  <2>1. /\ ver' = [ver EXCEPT ![v] = Asking]
        /\ UNCHANGED <<clock, unlimited, time, purchases, user, record, answers>>
    BY <1>3 DEF VerifyReceipt, Start, Asking, vars
  <2> QED BY <1>0, <2>1, VerMoves DEF Asking, Recorded
<1>4. ASSUME NEW v \in Verification, VerifyProduct(v) PROVE SubTypeOK' /\ Noons'
  <2> DEFINE expires == GoodFor(Month)
  <2>1. PICK tier \in Paid : ver' = [ver EXCEPT ![v] = ToWrite(tier, expires, FALSE)]
    BY <1>4 DEF VerifyProduct, Start
  <2>2. /\ UNCHANGED <<clock, unlimited, time, purchases, user, record>>
        /\ answers' = answers + 1
    BY <1>4 DEF VerifyProduct, Start, vars
  <2>3. expires \in Nat /\ IsNoon(expires)
    BY <1>0, GoodForNoon
  <2> HIDE DEF expires
  <2> QED BY <1>c, <2>1, <2>2, <2>3, VerMoves
<1>6. ASSUME NEW v \in Verification, AppleAnswers(v) PROVE SubTypeOK' /\ Noons'
  <2>1. PICK i \in DOMAIN purchases :
           ver' = [ver EXCEPT ![v] = ToWrite(purchases[i].tier, purchases[i].expires, TRUE)]
    BY <1>6 DEF AppleAnswers
  <2>2. /\ UNCHANGED <<clock, unlimited, time, purchases, user, record>>
        /\ answers' = answers + 1
    BY <1>6 DEF AppleAnswers, vars
  <2>3. /\ purchases[i].tier \in Paid /\ purchases[i].expires \in Nat
        /\ IsNoon(purchases[i].expires)
    BY <1>b DEF Receipt, SubInv, Noons
  <2> QED BY <1>c, <2>1, <2>2, <2>3, VerMoves
<1>7. ASSUME NEW v \in Verification, AppleRefuses(v) PROVE SubTypeOK' /\ Noons'
  <2>1. /\ ver' = [ver EXCEPT ![v] = VerEnded]
        /\ UNCHANGED <<clock, unlimited, time, purchases, user, record, answers>>
    BY <1>7 DEF AppleRefuses, vars
  <2> QED BY <1>0, <2>1, VerMoves DEF VerEnded, Recorded
<1>8. ASSUME NEW v \in Verification, WriteTier(v) PROVE SubTypeOK' /\ Noons'
  <2>1. ver[v] \in Writing
    BY <1>0, <1>8 DEF WriteTier, VerIdle, VerEnded, Asking
  <2>2. ver' \in [Verification -> {VerIdle, VerEnded, Asking} \cup Writing]
    BY <1>0, <1>8 DEF WriteTier
  <2>3. Recorded'
    BY <1>0, <1>8, <2>1 DEF WriteTier, Writing, Recorded, Never
  <2>4. SubTypeOK'
    BY <1>8, <2>1, <2>2, <2>3 DEF WriteTier, Writing, Asking, SubInv, SubTypeOK, Recorded
  <2>5. Noons'
    BY <1>0, <1>8, <2>1 DEF WriteTier, SubInv, Noons, VerEnded
  <2> QED BY <2>4, <2>5
<1>9. CASE Buy
  <2>1. PICK t \in Paid, days \in Period :
           purchases' = Append(purchases, [tier |-> t, expires |-> GoodFor(days)])
    BY <1>9 DEF Buy, VisiblePaidTiers
  <2> DEFINE expires == GoodFor(days)
  <2>2. expires \in Nat /\ IsNoon(expires)
    BY <1>0, GoodForNoon
  <2> HIDE DEF expires
  <2>3. [tier |-> t, expires |-> expires] \in Receipt
    BY <2>2 DEF Receipt
  <2>4. purchases' = Append(purchases, [tier |-> t, expires |-> expires])
    BY <2>1 DEF expires
  <2>5. purchases' \in Seq(Receipt)
    BY <1>0, <2>3, <2>4
  <2>6. \A i \in DOMAIN purchases' :
           (i \in DOMAIN purchases /\ purchases'[i] = purchases[i])
             \/ purchases'[i].expires = expires
    BY <1>0, <2>3, <2>4
  <2>7. UNCHANGED <<clock, unlimited, time, user, ver, answers, record>>
    BY <1>9 DEF Buy, vars
  <2>8. SubTypeOK'
    BY <2>5, <2>7 DEF SubInv, SubTypeOK, Receipt, user, record
  <2>9. Noons'
    BY <2>2, <2>6, <2>7 DEF SubInv, Noons, user
  <2> QED BY <2>8, <2>9
<1>10. CASE HalfDay
  <2>1. /\ time' = time + 1 /\ time < 2 * MaxDay
        /\ UNCHANGED <<purchases, user, ver, answers, record>>
    BY <1>10 DEF HalfDay
  <2>2. clock' = DayOf(time')
    BY <1>0, <1>10, <2>1, HalfDays DEF HalfDay, Midnight, SubInv, SubTypeOK
  <2>3. unlimited' = Effective(subscriptionTier, subscriptionExpiresAt, time')
    <3>1. CASE IsNoon(time)
      BY <1>10, <3>1 DEF HalfDay
    <3>2. CASE ~IsNoon(time)
      <4>1. unlimited' = unlimited
        BY <1>10, <3>2 DEF HalfDay, Midnight
      <4>2. subscriptionExpiresAt # Never => subscriptionExpiresAt # time
        BY <3>2 DEF SubInv, Noons
      <4> QED BY <1>0, <2>1, <4>1, <4>2 DEF SubInv, SubTypeOK, Effective
    <3> QED BY <3>1, <3>2
  <2>4. SubTypeOK'
    BY <2>1, <2>2, <2>3, <1>0 DEF SubInv, SubTypeOK, user, record
  <2>5. Noons'
    BY <2>1 DEF SubInv, Noons, user
  <2> QED BY <2>4, <2>5
<1>11. CASE SubCrash
  <2>1. ver' \in [Verification -> {VerIdle, VerEnded, Asking} \cup Writing]
    BY <1>0, <1>11 DEF SubCrash
  <2>2. UNCHANGED <<clock, unlimited, time, purchases, user, answers, record>>
    BY <1>11 DEF SubCrash
  <2>3. \A v \in Verification : ver'[v].pc = "write" => ver'[v] = ver[v]
    BY <1>11 DEF SubCrash, VerEnded
  <2> QED BY <2>1, <2>2, <2>3 DEF SubInv, SubTypeOK, Noons, user, record, Asking, Writing
<1>12. CASE UNCHANGED subVars
  BY <1>12 DEF subVars, vars, sub, user, record, SubInv, SubTypeOK, Noons
<1> QED BY <1>1, <1>3, <1>4, <1>6, <1>7, <1>8, <1>9, <1>10, <1>11, <1>12 DEF SubNext

\* The invariant is inductive.
LEMMA SubInvStep == SubInv /\ [SubNext]_subVars => SubInv'
BY StepMaps, BlankStep, TypeStep, SubTypeStep DEF SubInv

\* The stored subscription, the purchases and the verifications keep their
\* types, the quota's clock is the calendar's and its tier the effective one.
THEOREM SubTypeCorrect == SubSpec => []SubTypeOK
<1>1. SubInv => SubTypeOK
  BY DEF SubInv
<1> QED BY <1>1, SubStart, SubInvStep, PTL DEF SubSpec

\* Purchases, renewals, verifications and expiries are to the quota a change of
\* tier between two of its steps: the abstract ChangeTier of Swipes is all that
\* verifyIosSubscription and the passing of subscriptionExpiresAt do to it.
THEOREM SubscriptionsImplementQuota == SubSpec => QuotaSpec
<1>1. SubInit => Init
  BY DEF SubInit
<1> QED BY <1>1, SubStart, SubInvStep, StepMaps, PTL DEF SubSpec, QuotaSpec, Spec

\* So the limit of the free tier holds with the tier that purchases make: while
\* requests do not overlap, no renewal and no expiry inside a request lets a
\* limited swipe past it.
THEOREM LimitKeptWithPurchases == SubSpec => []LimitKeptOneAtATime
BY SubscriptionsImplementQuota, LimitKept, PTL DEF QuotaSpec

-----------------------------------------------------------------------------
(* What was verified.                                                      *)

\* A sale lasts at least until the given half day.
Covered(expires) == \E i \in DOMAIN purchases : purchases[i].expires >= expires

\* The verifications about to write, and those of them that Apple has answered.
Pending == {v \in Verification : ver[v].pc = "write"}
Answered == {v \in Pending : ver[v].receipt}

\* Each is numbered in the order in which its tier and expiry were known.
Numbered ==
    /\ written <= answers
    /\ \A v \in Pending : ver[v].nth >= 1 /\ ver[v].nth <= answers /\ ver[v].nth # written
    /\ \A v, w \in Pending : ver[v].nth = ver[w].nth => v = w

\* A receipt that was answered later shows no earlier end, and what is confirmed
\* is not above a receipt answered after the last one written.
Monotone ==
    /\ confirmed # Never => Covered(confirmed)
    /\ \A v \in Answered : Covered(ver[v].expires)
    /\ \A v, w \in Answered : ver[v].nth < ver[w].nth => ver[v].expires <= ver[w].expires
    /\ \A v \in Answered : ver[v].nth > written => ver[v].expires >= confirmed

\* What is stored is what was confirmed, or what a product id has written since.
StoredInv ==
    ~reordered /\ confirmed # Never =>
        /\ subscriptionTier # Access
        /\ fallback = Never => subscriptionExpiresAt >= confirmed
        /\ fallback # Never => subscriptionExpiresAt = fallback

VerifiedInv == Numbered /\ Monotone /\ StoredInv

\* The invariant holds of a new account.
LEMMA VerifiedStart == SubInit => VerifiedInv
BY DEF SubInit, VerifiedInv, Numbered, Monotone, StoredInv, Pending, Answered, VerIdle, Never

\* The types of all this.
VerifiedTypes ==
    /\ Recorded /\ subscriptionExpiresAt \in Nat
    /\ \A i \in DOMAIN purchases : purchases[i].expires \in Nat
    /\ DOMAIN ver = Verification
    /\ \A v \in Pending : ver[v] \in Writing /\ IsNoon(ver[v].expires)

LEMMA SubInvTypes == SubInv => VerifiedTypes
<1> SUFFICES ASSUME SubInv PROVE VerifiedTypes
  OBVIOUS
<1>1. purchases \in Seq(Receipt) /\ ver \in [Verification -> {VerIdle, VerEnded, Asking} \cup Writing]
  BY DEF SubInv, SubTypeOK, Receipt, Asking, Writing
<1>2. \A i \in DOMAIN purchases : purchases[i] \in Receipt
  BY <1>1
<1>3. \A v \in Pending : ver[v] \in Writing /\ IsNoon(ver[v].expires)
  BY <1>1 DEF Pending, VerIdle, VerEnded, Asking, SubInv, Noons
<1> QED BY <1>1, <1>2, <1>3 DEF VerifiedTypes, Recorded, SubInv, SubTypeOK, Receipt

\* Steps that leave the subscription and the numbers alone: what was about to be
\* written still is, or is lost, and no sale is taken back.
LEMMA VerifiedStays ==
    ASSUME VerifiedInv, UNCHANGED <<user, answers, record>>,
           Pending' \subseteq Pending, \A v \in Pending' : ver'[v] = ver[v],
           \A x : Covered(x) => Covered(x)'
    PROVE  VerifiedInv'
<1>1. Answered' \subseteq Answered
  BY DEF Answered
<1>2. Numbered'
  BY DEF VerifiedInv, Numbered, record
<1>3. Monotone'
  BY <1>1 DEF VerifiedInv, Monotone, record, Answered
<1>4. StoredInv'
  BY DEF VerifiedInv, StoredInv, record, user
<1> QED BY <1>2, <1>3, <1>4 DEF VerifiedInv

\* A verification that has its tier and expiry is numbered after all others, and
\* if Apple has given them, no sale ends later.
LEMMA VerifiedNumbers ==
    ASSUME VerifiedTypes, VerifiedInv, NEW v \in Verification, v \notin Pending,
           NEW tier, NEW expires \in Nat, NEW receipt \in BOOLEAN,
           ver' = [ver EXCEPT ![v] = ToWrite(tier, expires, receipt)],
           answers' = answers + 1, UNCHANGED <<purchases, user, record>>,
           receipt => Covered(expires) /\ \A i \in DOMAIN purchases : purchases[i].expires <= expires
    PROVE  VerifiedInv'
<1> DEFINE q == ToWrite(tier, expires, receipt)
<1>0. answers \in Nat /\ confirmed \in Nat /\ written \in Nat
  BY DEF VerifiedTypes, Recorded
<1>1. /\ q.pc = "write" /\ q.expires = expires /\ q.receipt = receipt /\ q.nth = answers + 1
      /\ ver'[v] = q /\ \A w \in Verification : w # v => ver'[w] = ver[w]
  BY DEF ToWrite, VerifiedTypes
<1> HIDE DEF q
<1>2. Pending' = Pending \cup {v} /\ \A w \in Pending : w # v /\ ver'[w] = ver[w]
  BY <1>1 DEF Pending
<1>3. Answered' = IF receipt THEN Answered \cup {v} ELSE Answered
  BY <1>1, <1>2 DEF Answered
<1>4. \A w \in Pending : ver[w].nth \in Nat /\ ver[w].expires \in Nat
  BY DEF VerifiedTypes, Writing
<1>5. \A x : Covered(x)' <=> Covered(x)
  BY DEF Covered
<1>6. Numbered'
  BY <1>0, <1>1, <1>2, <1>4 DEF VerifiedInv, Numbered, record
<1>7. receipt => \A x \in Nat : Covered(x) => x <= expires
  BY DEF Covered, VerifiedTypes
<1>8. Monotone'
  <2>1. confirmed' # Never => Covered(confirmed)'
    BY <1>5 DEF VerifiedInv, Monotone, record
  <2>2. (\A w \in Answered : Covered(ver[w].expires))'
    <3>1. \A w \in Answered' : Covered(ver'[w].expires)
      BY <1>1, <1>2, <1>3 DEF VerifiedInv, Monotone, Answered
    <3> QED BY <3>1 DEF Covered
  <2>3. ASSUME NEW w \in Answered', NEW x \in Answered', ver'[w].nth < ver'[x].nth
        PROVE  ver'[w].expires <= ver'[x].expires
    <3>1. CASE x = v
      <4>1. w \in Answered /\ receipt /\ ver'[w] = ver[w]
        BY <1>0, <1>1, <1>2, <1>3, <2>3, <3>1 DEF Answered
      <4>2. Covered(ver[w].expires) /\ ver[w].expires \in Nat
        BY <1>4, <4>1 DEF VerifiedInv, Monotone, Answered
      <4> QED BY <1>1, <1>7, <3>1, <4>1, <4>2
    <3>2. CASE x # v
      <4>1. x \in Answered /\ ver'[x] = ver[x] /\ ver[x].nth <= answers /\ ver[x].nth \in Nat
        BY <1>2, <1>3, <1>4, <3>2 DEF Answered, VerifiedInv, Numbered
      <4>2. w # v
        BY <1>0, <1>1, <2>3, <4>1
      <4>3. w \in Answered /\ ver'[w] = ver[w]
        BY <1>2, <1>3, <4>2 DEF Answered
      <4> QED BY <2>3, <4>1, <4>3 DEF VerifiedInv, Monotone
    <3> QED BY <3>1, <3>2
  <2>4. ASSUME NEW w \in Answered', ver'[w].nth > written' PROVE ver'[w].expires >= confirmed'
    <3>1. CASE w = v
      <4>1. receipt /\ ver'[w].expires = expires /\ confirmed' = confirmed
        BY <1>1, <1>2, <1>3, <2>4, <3>1 DEF Answered, record
      <4>2. confirmed # Never => confirmed <= expires
        BY <1>0, <1>7, <4>1 DEF VerifiedInv, Monotone
      <4>3. confirmed <= expires
        BY <1>0, <4>2 DEF Never
      <4> QED BY <1>0, <4>1, <4>3
    <3>2. CASE w # v
      <4>1. w \in Answered /\ ver'[w] = ver[w]
        BY <1>2, <1>3, <3>2 DEF Answered
      <4> QED BY <2>4, <4>1 DEF VerifiedInv, Monotone, record
    <3> QED BY <3>1, <3>2
  <2> QED BY <2>1, <2>2, <2>3, <2>4 DEF Monotone
<1>9. StoredInv'
  BY DEF VerifiedInv, StoredInv, record, user
<1> QED BY <1>6, <1>8, <1>9 DEF VerifiedInv

\* A verification that writes: in the order of the answers, it shows no earlier
\* end than any receipt before it.
LEMMA VerifiedWrites ==
    ASSUME VerifiedTypes, VerifiedInv, NEW v \in Verification, WriteTier(v)
    PROVE  VerifiedInv'
<1> DEFINE q == ver[v]
<1>0. /\ answers \in Nat /\ confirmed \in Nat /\ written \in Nat /\ reordered \in BOOLEAN
      /\ \A w \in Pending : ver[w].nth \in Nat /\ ver[w].expires \in Nat
  BY DEF VerifiedTypes, Recorded, Writing
<1>1. /\ v \in Pending /\ q \in Writing /\ IsNoon(q.expires)
      /\ q.tier \in Paid /\ q.expires \in Nat /\ q.receipt \in BOOLEAN /\ q.nth \in Nat
  <2>1. v \in Pending
    BY DEF WriteTier, Pending
  <2> QED BY <2>1 DEF VerifiedTypes, Writing
<1>2. /\ subscriptionTier' = q.tier /\ subscriptionExpiresAt' = q.expires
      /\ confirmed' = IF q.receipt /\ q.expires > confirmed THEN q.expires ELSE confirmed
      /\ fallback' = IF q.receipt THEN Never ELSE q.expires
      /\ written' = IF q.nth > written THEN q.nth ELSE written
      /\ reordered' = (reordered \/ q.nth < written)
      /\ ver' = [ver EXCEPT ![v] = VerEnded]
      /\ UNCHANGED <<purchases, answers>>
  BY DEF WriteTier
<1>3. Pending' = Pending \ {v} /\ \A w \in Pending' : ver'[w] = ver[w]
  <2>1. ver'[v] = VerEnded /\ \A w \in Verification : w # v => ver'[w] = ver[w]
    BY <1>2 DEF VerifiedTypes
  <2> QED BY <2>1 DEF Pending, VerEnded
<1>4. Answered' = Answered \ {v}
  BY <1>3 DEF Answered
<1>5. \A x : Covered(x)' <=> Covered(x)
  BY <1>2 DEF Covered
<1>6. /\ q.nth >= 1 /\ q.nth <= answers /\ q.nth # written
      /\ \A w \in Pending' : w \in Pending /\ ver[w].nth # q.nth
      /\ q.receipt => v \in Answered
  BY <1>1, <1>3 DEF VerifiedInv, Numbered, Answered
<1> HIDE DEF q
<1>7. Numbered'
  <2>1. written' <= answers'
    BY <1>0, <1>1, <1>2, <1>6 DEF VerifiedInv, Numbered
  <2>2. \A w \in Pending' : ver'[w].nth >= 1 /\ ver'[w].nth <= answers' /\ ver'[w].nth # written'
    BY <1>2, <1>3, <1>6 DEF VerifiedInv, Numbered
  <2>3. \A w, x \in Pending' : ver'[w].nth = ver'[x].nth => w = x
    BY <1>3 DEF VerifiedInv, Numbered
  <2> QED BY <2>1, <2>2, <2>3 DEF Numbered
<1>8. Monotone'
  <2>1. confirmed' # Never => Covered(confirmed)'
    <3>1. CASE confirmed' = confirmed
      BY <1>5, <3>1 DEF VerifiedInv, Monotone
    <3>2. CASE confirmed' # confirmed
      <4>1. confirmed' = q.expires /\ v \in Answered
        BY <1>2, <1>6, <3>2
      <4>2. Covered(q.expires)
        BY <4>1 DEF VerifiedInv, Monotone, q
      <4> QED BY <1>5, <4>1, <4>2
    <3> QED BY <3>1, <3>2
  <2>2. \A w \in Answered' : w \in Answered /\ ver'[w] = ver[w]
    BY <1>3, <1>4 DEF Answered
  <2>3. (\A w \in Answered : Covered(ver[w].expires))'
    <3>1. \A w \in Answered' : Covered(ver'[w].expires)
      BY <2>2 DEF VerifiedInv, Monotone
    <3> QED BY <1>2, <3>1 DEF Covered
  <2>4. \A w, x \in Answered' : ver'[w].nth < ver'[x].nth => ver'[w].expires <= ver'[x].expires
    BY <2>2 DEF VerifiedInv, Monotone
  <2>5. ASSUME NEW w \in Answered', ver'[w].nth > written' PROVE ver'[w].expires >= confirmed'
    <3>1. /\ w \in Answered /\ w \in Pending /\ ver'[w] = ver[w]
          /\ ver[w].nth \in Nat /\ ver[w].expires \in Nat
      BY <1>0, <2>2, <2>5 DEF Answered
    <3>2. ver[w].nth > written /\ ver[w].nth > q.nth
      BY <1>0, <1>1, <1>2, <2>5, <3>1
    <3>3. ver[w].expires >= confirmed
      BY <3>1, <3>2 DEF VerifiedInv, Monotone
    <3>4. q.receipt => ver[w].expires >= q.expires
      <4>1. q.receipt => v \in Answered /\ ver[v].nth < ver[w].nth
        BY <1>1, <1>6, <3>1, <3>2 DEF q
      <4> QED BY <1>1, <3>1, <4>1 DEF VerifiedInv, Monotone, q
    <3> QED BY <1>2, <3>1, <3>3, <3>4
  <2> QED BY <2>1, <2>3, <2>4, <2>5 DEF Monotone
<1>9. StoredInv'
  <2> SUFFICES ASSUME ~reordered', confirmed' # Never
               PROVE  /\ subscriptionTier' # Access
                      /\ fallback' = Never => subscriptionExpiresAt' >= confirmed'
                      /\ fallback' # Never => subscriptionExpiresAt' = fallback'
    BY DEF StoredInv
  <2>1. subscriptionTier' # Access
    BY <1>1, <1>2 DEF Paid, Access
  <2>2. q.nth > written
    <3>1. ~(q.nth < written)
      BY <1>2, Zenon
    <3> QED BY <1>0, <1>1, <1>6, <3>1
  <2>3. CASE q.receipt
    <3>1. q.expires >= confirmed
      BY <1>6, <2>2, <2>3 DEF VerifiedInv, Monotone, q
    <3>2. fallback' = Never /\ subscriptionExpiresAt' >= confirmed'
      BY <1>0, <1>1, <1>2, <2>3, <3>1
    <3> QED BY <2>1, <3>2
  <2>4. CASE ~q.receipt
    <3>1. q.expires # Never
      BY <1>1 DEF IsNoon, Never
    <3> QED BY <1>2, <2>1, <2>4, <3>1
  <2> QED BY <1>1, <2>3, <2>4
<1> QED BY <1>7, <1>8, <1>9 DEF VerifiedInv

\* Every step keeps it: no sale is taken back, Apple answers with the sale that
\* ends last, and what it answers later is no less.
LEMMA VerifiedStep == SubInv /\ VerifiedInv /\ [SubNext]_subVars => VerifiedInv'
<1> SUFFICES ASSUME SubInv, VerifiedInv, [SubNext]_subVars PROVE VerifiedInv'
  OBVIOUS
<1>0. VerifiedTypes
  BY SubInvTypes
<1>1. ASSUME UNCHANGED <<purchases, ver, user, answers, record>> PROVE VerifiedInv'
  BY <1>1, VerifiedStays DEF Pending, Covered
<1>2. ASSUME NEW v \in Verification, VerifyReceipt(v) \/ AppleRefuses(v) PROVE VerifiedInv'
  <2>1. PICK q : q.pc # "write" /\ ver' = [ver EXCEPT ![v] = q]
    BY <1>2 DEF VerifyReceipt, AppleRefuses, Start, VerEnded
  <2>2. UNCHANGED <<purchases, user, answers, record>>
    BY <1>2 DEF VerifyReceipt, AppleRefuses, Start
  <2>3. Pending' \subseteq Pending /\ \A w \in Pending' : ver'[w] = ver[w]
    BY <1>0, <2>1 DEF Pending, VerifiedTypes
  <2> QED BY <2>2, <2>3, VerifiedStays DEF Covered
<1>3. ASSUME NEW v \in Verification, VerifyProduct(v) PROVE VerifiedInv'
  <2> DEFINE expires == GoodFor(Month)
  <2>1. PICK tier \in Product : ver' = [ver EXCEPT ![v] = ToWrite(tier, expires, FALSE)]
    BY <1>3 DEF VerifyProduct, Start
  <2>2. /\ UNCHANGED <<purchases, user, record>> /\ answers' = answers + 1 /\ v \notin Pending
    BY <1>3 DEF VerifyProduct, Start, Pending
  <2>3. expires \in Nat
    <3>1. clock \in Nat
      BY DEF SubInv, SubTypeOK, DayOf
    <3> QED BY <3>1, GoodForNoon
  <2> HIDE DEF expires
  <2> QED BY <1>0, <2>1, <2>2, <2>3, VerifiedNumbers
<1>4. ASSUME NEW v \in Verification, AppleAnswers(v) PROVE VerifiedInv'
  <2>1. PICK i \in DOMAIN purchases :
           /\ \A j \in DOMAIN purchases : purchases[j].expires <= purchases[i].expires
           /\ ver' = [ver EXCEPT ![v] = ToWrite(purchases[i].tier, purchases[i].expires, TRUE)]
    BY <1>4 DEF AppleAnswers
  <2>2. /\ UNCHANGED <<purchases, user, record>> /\ answers' = answers + 1 /\ v \notin Pending
    BY <1>4 DEF AppleAnswers, Pending
  <2>3. purchases[i].expires \in Nat /\ Covered(purchases[i].expires)
    BY <1>0 DEF Covered, VerifiedTypes
  <2> QED BY <1>0, <2>1, <2>2, <2>3, VerifiedNumbers
<1>5. ASSUME NEW v \in Verification, WriteTier(v) PROVE VerifiedInv'
  BY <1>0, <1>5, VerifiedWrites
<1>6. CASE Buy
  <2>1. PICK row : purchases' = Append(purchases, row)
    BY <1>6 DEF Buy
  <2>2. purchases \in Seq(Receipt)
    BY DEF SubInv, SubTypeOK, Receipt
  <2>3. \A i \in DOMAIN purchases : i \in DOMAIN purchases' /\ purchases'[i] = purchases[i]
    BY <2>1, <2>2
  <2>4. \A x : Covered(x) => Covered(x)'
    BY <2>3 DEF Covered
  <2>5. UNCHANGED <<ver, user, answers, record>>
    BY <1>6 DEF Buy
  <2>6. Pending' = Pending
    BY <2>5 DEF Pending
  <2> QED BY <2>4, <2>5, <2>6, VerifiedStays
<1>7. CASE HalfDay
  BY <1>1, <1>7 DEF HalfDay
<1>8. CASE SubCrash
  <2>1. UNCHANGED <<purchases, user, answers, record>>
    BY <1>8 DEF SubCrash
  <2>2. Pending' \subseteq Pending /\ \A v \in Pending' : ver'[v] = ver[v]
    BY <1>8 DEF SubCrash, VerEnded, Pending
  <2> QED BY <2>1, <2>2, VerifiedStays DEF Covered
<1>9. ASSUME NEW r \in Request, Swipe(r) PROVE VerifiedInv'
  BY <1>1, <1>9 DEF Swipe, sub
<1>10. CASE UNCHANGED subVars
  BY <1>1, <1>10 DEF subVars, sub
<1> QED BY <1>2, <1>3, <1>4, <1>5, <1>6, <1>7, <1>8, <1>9, <1>10 DEF SubNext

\* Written in the order in which Apple answered, verifications of one user may
\* overlap as they like: no renewal, no receipt verified again, no expiry of an
\* earlier sale and no restart takes away what a receipt has shown, for sales of
\* any length and any number; only a product id does, down to its own month.
THEOREM VerifiedUnlimited == SubSpec => []VerifiedIsUnlimited
<1>1. SubInv /\ VerifiedInv => VerifiedIsUnlimited
  <2> SUFFICES ASSUME SubInv, VerifiedInv, ~reordered, confirmed # Never, time <= confirmed,
                      fallback # Never => time <= fallback
               PROVE  unlimited
    BY DEF VerifiedIsUnlimited
  <2>1. /\ subscriptionTier # Access
        /\ fallback = Never => subscriptionExpiresAt >= confirmed
        /\ fallback # Never => subscriptionExpiresAt = fallback
    BY DEF VerifiedInv, StoredInv
  <2>2. /\ time \in Nat /\ confirmed \in Nat /\ subscriptionExpiresAt \in Nat
        /\ unlimited = Effective(subscriptionTier, subscriptionExpiresAt, time)
    BY DEF SubInv, SubTypeOK
  <2>3. subscriptionExpiresAt # Never /\ time <= subscriptionExpiresAt
    BY <2>1, <2>2 DEF Never
  <2> QED BY <2>1, <2>2, <2>3, Zenon DEF Effective
<1> QED BY <1>1, SubStart, SubInvStep, VerifiedStart, VerifiedStep, PTL DEF SubSpec
=============================================================================
