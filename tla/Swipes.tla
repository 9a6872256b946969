------------------------------- MODULE Swipes -------------------------------
(***************************************************************************)
(* The daily swipe quota of one user: UsersService.consumeSwipeForLike,    *)
(* called by every POST /users/likeUser before anything else happens.      *)
(*                                                                         *)
(* The quota is two fields of the user document (swipeDayUtc and           *)
(* swipeCountDay) that a request reads in one database call and writes in  *)
(* one or two later ones.  A request is therefore a small process: every   *)
(* `await` of the method is a step of its own, and the requests of one     *)
(* user (two devices, a double tap, a client retry) interleave freely.     *)
(***************************************************************************)
EXTENDS Naturals, FiniteSets

CONSTANTS
    Request,    \* slots for requests of this user that are in flight together
    Limit,      \* TIER_LIMITS.creator_access.maxDailySwipes
    MaxDay,     \* bound: last UTC day of the calendar
    MaxSent     \* bound: requests the client sends in all

ASSUME RequestAssumption == IsFiniteSet(Request) /\ Request # {}
ASSUME LimitAssumption == Limit \in Nat \ {0}
ASSUME MaxDayAssumption == MaxDay \in Nat \ {0}
ASSUME MaxSentAssumption == MaxSent \in Nat

VARIABLES
    clock,          \* the day utcDay() returns now
    unlimited,      \* effectiveSubscriptionTier(user) has no maxDailySwipes
    swipeDayUtc,    \* user.swipeDayUtc, NoDay for the empty string
    swipeCountDay,  \* user.swipeCountDay
    req,            \* local variables of each request
    sent,           \* requests sent so far
    \* History, read by the properties only:
    granted,        \* swipes granted to a limited tier, per day
    total,          \* swipes granted at all, per day
    paid,           \* unlimited swipes counted since the counter was last reset
    overlapped      \* two requests have been in flight at the same time

doc == <<swipeDayUtc, swipeCountDay>>
history == <<granted, total, paid, overlapped>>
vars == <<clock, unlimited, doc, req, sent, history>>

NoDay == 0
Day == 1..MaxDay
StoredDay == Day \cup {NoDay}

Idle == [pc |-> "idle", count |-> 0, day |-> NoDay, today |-> NoDay,
         unlimited |-> FALSE]

Active == {r \in Request : req[r].pc # "idle"}

Init ==
    /\ clock = 1
    /\ unlimited = FALSE
    /\ swipeDayUtc = NoDay
    /\ swipeCountDay = 0
    /\ req = [r \in Request |-> Idle]
    /\ sent = 0
    /\ granted = [d \in Day |-> 0]
    /\ total = [d \in Day |-> 0]
    /\ paid = 0
    /\ overlapped = FALSE

-----------------------------------------------------------------------------
(* The steps of a request.                                                 *)

\* findById: the database answers with the tier and the two quota fields.  The
\* expiry is compared with the time on resume; an expiry in between is a tier that
\* changed just before the read, which ChangeTier allows.
Read(r) ==
    /\ req[r].pc = "idle"
    /\ sent < MaxSent
    /\ sent' = sent + 1
    /\ req' = [req EXCEPT ![r] = [pc |-> "decide", count |-> swipeCountDay,
                                  day |-> swipeDayUtc, today |-> NoDay,
                                  unlimited |-> unlimited]]
    /\ overlapped' = (overlapped \/ Active # {})
    /\ UNCHANGED <<clock, unlimited, doc, granted, total, paid>>

\* Mutant: the comparison lets one more swipe through.
HasQuotaOffByOne(q) == q.unlimited \/ q.count <= Limit

\* The complement of `maxDailySwipes != null && count >= maxDailySwipes`.
HasQuota(q) == q.unlimited \/ q.count < Limit

\* The stored day is not today: the method goes on with count = 0 and first
\* writes that reset.
SeeNewDay(r) ==
    /\ req[r].pc = "decide"
    /\ req[r].day # clock
    /\ req' = [req EXCEPT ![r].pc = "reset", ![r].count = 0, ![r].today = clock]
    /\ UNCHANGED <<clock, unlimited, doc, sent, history>>

\* 'Daily swipe limit reached': the request ends and writes nothing.
Refuse(r) ==
    /\ req[r].pc = "decide"
    /\ req[r].day = clock
    /\ ~HasQuota(req[r])
    /\ req' = [req EXCEPT ![r] = Idle]
    /\ UNCHANGED <<clock, unlimited, doc, sent, history>>

Allow(r) ==
    /\ req[r].pc = "decide"
    /\ req[r].day = clock
    /\ HasQuota(req[r])
    /\ req' = [req EXCEPT ![r].pc = "increment", ![r].today = clock]
    /\ UNCHANGED <<clock, unlimited, doc, sent, history>>

\* Mutant: the reset stores the day and forgets the counter.
ResetKeepsCount(r) ==
    /\ req[r].pc = "reset"
    /\ swipeDayUtc' = req[r].today
    /\ req' = [req EXCEPT ![r].pc = "increment"]
    /\ UNCHANGED <<clock, unlimited, swipeCountDay, sent, history>>

\* updateOne $set {swipeDayUtc: today, swipeCountDay: 0}.  The limit test that
\* follows sees count = 0 and never refuses, because Limit > 0.
Reset(r) ==
    /\ req[r].pc = "reset"
    /\ swipeDayUtc' = req[r].today
    /\ swipeCountDay' = 0
    /\ paid' = 0
    /\ req' = [req EXCEPT ![r].pc = "increment"]
    /\ UNCHANGED <<clock, unlimited, sent, granted, total, overlapped>>

\* updateOne $set swipeDayUtc, $inc swipeCountDay: the swipe is granted.
Increment(r) ==
    LET q == req[r]
        by(limited) == IF limited THEN 1 ELSE 0
    IN  /\ q.pc = "increment"
        /\ swipeDayUtc' = q.today
        /\ swipeCountDay' = swipeCountDay + 1
        /\ req' = [req EXCEPT ![r] = Idle]
        /\ granted' = [granted EXCEPT ![q.today] = @ + by(~q.unlimited)]
        /\ total' = [total EXCEPT ![q.today] = @ + 1]
        /\ paid' = paid + by(q.unlimited)
        /\ UNCHANGED <<clock, unlimited, sent, overlapped>>

-----------------------------------------------------------------------------
(* The environment.                                                        *)

Midnight ==
    /\ clock < MaxDay
    /\ clock' = clock + 1
    /\ UNCHANGED <<unlimited, doc, req, sent, history>>

\* A purchase is verified, or subscriptionExpiresAt passes.
ChangeTier ==
    /\ unlimited' = ~unlimited
    /\ UNCHANGED <<clock, doc, req, sent, history>>

\* The server process restarts: the document stays, requests are lost.
Crash ==
    /\ Active # {}
    /\ req' = [r \in Request |-> Idle]
    /\ UNCHANGED <<clock, unlimited, doc, sent, history>>

Step(r) ==
    \/ Read(r)
    \/ SeeNewDay(r)
    \/ Refuse(r)
    \/ Allow(r)
    \/ Reset(r)
    \/ Increment(r)

Next ==
    \/ \E r \in Request : Step(r)
    \/ Midnight
    \/ ChangeTier
    \/ Crash

Spec == Init /\ [][Next]_vars

-----------------------------------------------------------------------------
(* Properties.                                                             *)

\* The type invariant of the quota fields, the requests and the history.
RequestState ==
    [pc : {"idle", "decide", "reset", "increment"}, count : Nat,
     day : StoredDay, today : StoredDay, unlimited : BOOLEAN]

TypeOK ==
    /\ clock \in Day
    /\ unlimited \in BOOLEAN
    /\ swipeDayUtc \in StoredDay
    /\ swipeCountDay \in Nat
    /\ req \in [Request -> RequestState]
    /\ \A r \in Request :
           req[r].pc \in {"reset", "increment"} => req[r].today \in Day
    /\ sent \in Nat
    /\ granted \in [Day -> Nat]
    /\ total \in [Day -> Nat]
    /\ paid \in Nat
    /\ overlapped \in BOOLEAN

\* However the requests of a user interleave, and whatever day they were read
\* on, the stored counter passes the limit by at most the number of requests
\* in flight together less one (swipes of an unlimited tier are counted on top
\* of it): the check-then-increment of consumeSwipeForLike is not atomic, but
\* its overrun is bounded by the concurrency, not by time.
CounterOverrunBounded ==
    swipeCountDay <= (Limit - 1) + Cardinality(Request) + paid

\* While a user's requests never overlap, no day grants a limited tier more
\* than the limit, across midnights, tier changes and restarts.
LimitKeptOneAtATime ==
    ~overlapped => \A d \in Day : granted[d] <= Limit

\* While a user's requests never overlap, a swipe is refused only on a day
\* that has really granted Limit swipes: a restart between the reset and the
\* increment, or a midnight inside a request, never costs a user a swipe.
RefusedOnlyWhenSpent ==
    [][\A r \in Request :
          Refuse(r) /\ ~overlapped => total[clock] >= Limit]_vars
=============================================================================
