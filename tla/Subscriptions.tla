---------------------------- MODULE Subscriptions ----------------------------
(***************************************************************************)
(* Where the tier of Swipes comes from: purchases in the App Store, the    *)
(* paywall that offers them (getSubscriptionPaywall), their verification   *)
(* (verifyIosSubscription), and their expiry.                              *)
(*                                                                         *)
(* A verification asks Apple and then writes tier and expiry: in between   *)
(* the user may renew and verify again.  What Apple sells may last longer  *)
(* or shorter than the 30 days that the code gives a product id, which it  *)
(* accepts from a user who has bought nothing.  The day is cut in two      *)
(* halves and subscriptions end at noon, so an expiry and a midnight are   *)
(* two steps.                                                              *)
(***************************************************************************)
EXTENDS Swipes, Sequences

Access == "creator_access"
Paid == {"collab_pro", "creator_passport", "creator_elite"}

CONSTANTS
    Verification,   \* bound: verifications in all, each used once
    Month,          \* 30 days: the length of a rollout phase, and of a subscription
                    \* that is verified by product id
    Period,         \* the lengths of the subscriptions Apple sells, in days
    Product,        \* the tiers of the product ids that clients send
    MaxPurchase     \* bound: purchases in all

ASSUME MonthAssumption == Month \in Nat \ {0}
ASSUME PeriodAssumption == Period \subseteq Nat \ {0}
ASSUME ProductAssumption == Product \subseteq Paid

VARIABLES
    time,                   \* half days since the account was created
    purchases,              \* what the App Store has sold, in order
    subscriptionTier,       \* user.subscriptionTier
    subscriptionExpiresAt,  \* user.subscriptionExpiresAt, Never for null
    ver,                    \* the verifications at work
    \* History, read by the properties only:
    confirmed,              \* the latest expiry a receipt has written
    fallback,               \* the expiry a product id has written since any receipt
    answers,                \* verifications that have had their tier and expiry so far
    written,                \* the last of them, in that order, that has been written
    reordered               \* one was written after another that had them later

user == <<subscriptionTier, subscriptionExpiresAt>>
record == <<confirmed, fallback, written, reordered>>
sub == <<time, purchases, user, ver, answers, record>>
subVars == <<vars, sub>>

Never == 0

DayOf(t) == (t + 1) \div 2
IsNoon(t) == t % 2 = 1
\* The last half day of a subscription of so many days that begins today.
GoodFor(days) == 2 * (clock + days) - 1

\* effectiveSubscriptionTier is a paid tier, and every paid tier is unlimited.
Effective(tier, expires, t) == tier # Access /\ expires # Never /\ t <= expires

VerIdle == [pc |-> "idle"]
VerEnded == [pc |-> "ended"]
Verifying == {v \in Verification : ver[v].pc \notin {"idle", "ended"}}

SubInit ==
    /\ Init
    /\ time = 1
    /\ purchases = <<>>
    /\ subscriptionTier = Access
    /\ subscriptionExpiresAt = Never
    /\ ver = [v \in Verification |-> VerIdle]
    /\ confirmed = Never
    /\ fallback = Never
    /\ answers = 0
    /\ written = 0
    /\ reordered = FALSE

-----------------------------------------------------------------------------
(* The App Store and the clock.                                            *)

\* visiblePaidTiers, by the age of the account in days.
VisiblePaidTiers(ageDays) ==
    {t \in Paid : \/ t = "collab_pro" /\ ageDays >= Month
                  \/ t = "creator_passport" /\ ageDays >= 2 * Month
                  \/ t = "creator_elite" /\ ageDays >= 3 * Month}

\* A first purchase or a renewal, which may come before the last one ends.
Buy ==
    /\ Len(purchases) < MaxPurchase
    /\ \E t \in VisiblePaidTiers(clock - 1), days \in Period :
          purchases' = Append(purchases, [tier |-> t, expires |-> GoodFor(days)])
    /\ UNCHANGED <<vars, time, user, ver, answers, record>>

\* Midnight after an even half day; at noon a subscription may end.
HalfDay ==
    /\ time' = time + 1
    /\ \/ ~IsNoon(time) /\ Midnight
       \/ /\ IsNoon(time)
          /\ unlimited' = Effective(subscriptionTier, subscriptionExpiresAt, time')
          /\ UNCHANGED <<clock, doc, req, sent, history>>
    /\ time < 2 * MaxDay
    /\ UNCHANGED <<purchases, user, ver, answers, record>>

-----------------------------------------------------------------------------
(* verifyIosSubscription                                                   *)

\* What a verification is about to write, in the order in which it is known.
ToWrite(tier, expires, receipt) ==
    [pc |-> "write", tier |-> tier, expires |-> expires, receipt |-> receipt,
     nth |-> answers + 1]

Start(v, request) ==
    /\ ver[v].pc = "idle"
    /\ ver' = [ver EXCEPT ![v] = request]
    /\ UNCHANGED <<vars, time, purchases, user, record>>

VerifyReceipt(v) ==
    /\ Start(v, [pc |-> "askApple"])
    /\ UNCHANGED answers

\* With a product id and no receipt, or with IAP_SKIP_VERIFICATION, Apple is not
\* asked: any product that is known, bought or not, is good for a month from now.
VerifyProduct(v) ==
    /\ \E tier \in Product : Start(v, ToWrite(tier, GoodFor(Month), FALSE))
    /\ answers' = answers + 1

\* Mutant: the rows are not sorted, and the last one sold is taken.
AppleAnswersLastSold(v) ==
    /\ ver[v].pc = "askApple"
    /\ purchases # <<>>
    /\ LET row == purchases[Len(purchases)]
       IN  ver' = [ver EXCEPT ![v] = ToWrite(row.tier, row.expires, TRUE)]
    /\ answers' = answers + 1
    /\ UNCHANGED <<vars, time, purchases, user, record>>

\* verifyReceipt, asked again of the sandbox on status 21007: the row that
\* expires last of what has been sold by now.
AppleAnswers(v) ==
    /\ ver[v].pc = "askApple"
    /\ \E i \in DOMAIN purchases :
          /\ \A j \in DOMAIN purchases : purchases[j].expires <= purchases[i].expires
          /\ ver' = [ver EXCEPT ![v] =
                        ToWrite(purchases[i].tier, purchases[i].expires, TRUE)]
    /\ answers' = answers + 1
    /\ UNCHANGED <<vars, time, purchases, user, record>>

\* Another status, no row or no expiry in it, no JSON, no answer, no shared secret.
AppleRefuses(v) ==
    /\ ver[v].pc = "askApple"
    /\ ver' = [ver EXCEPT ![v] = VerEnded]
    /\ UNCHANGED <<vars, time, purchases, user, answers, record>>

\* Mutant: a purchase also forgives the swipes of the day.
WriteTierAndReset(v) ==
    /\ ver[v].pc = "write"
    /\ subscriptionTier' = ver[v].tier
    /\ subscriptionExpiresAt' = ver[v].expires
    /\ unlimited' = Effective(ver[v].tier, ver[v].expires, time)
    /\ swipeCountDay' = 0
    /\ ver' = [ver EXCEPT ![v] = VerEnded]
    /\ UNCHANGED <<clock, swipeDayUtc, req, sent, history, time, purchases, answers, record>>

\* findOneAndUpdate $set, whatever is stored by now.
WriteTier(v) ==
    LET q == ver[v]
    IN  /\ q.pc = "write"
        /\ subscriptionTier' = q.tier
        /\ subscriptionExpiresAt' = q.expires
        /\ unlimited' = Effective(q.tier, q.expires, time)
        /\ ver' = [ver EXCEPT ![v] = VerEnded]
        /\ confirmed' = IF q.receipt /\ q.expires > confirmed THEN q.expires ELSE confirmed
        /\ fallback' = IF q.receipt THEN Never ELSE q.expires
        /\ written' = IF q.nth > written THEN q.nth ELSE written
        /\ reordered' = (reordered \/ q.nth < written)
        /\ UNCHANGED <<clock, doc, req, sent, history, time, purchases, answers>>

-----------------------------------------------------------------------------
SubCrash ==
    /\ Active # {} \/ Verifying # {}
    /\ req' = [r \in Request |-> Idle]
    /\ ver' = [v \in Verification |-> IF v \in Verifying THEN VerEnded ELSE ver[v]]
    /\ UNCHANGED <<clock, unlimited, doc, sent, history,
                   time, purchases, user, answers, record>>

Swipe(r) == Step(r) /\ UNCHANGED sub

SubNext ==
    \/ \E r \in Request : Swipe(r)
    \/ \E v \in Verification :
          \/ VerifyReceipt(v) \/ VerifyProduct(v)
          \/ AppleAnswers(v) \/ AppleRefuses(v)
          \/ WriteTier(v)
    \/ Buy
    \/ HalfDay
    \/ SubCrash

SubSpec == SubInit /\ [][SubNext]_subVars

-----------------------------------------------------------------------------
(* Properties.                                                             *)

\* The type invariant of the subscription, with the clock and the tier the
\* quota works with, which are functions of it.
SubTypeOK ==
    /\ time \in 1..(2 * MaxDay)
    /\ clock = DayOf(time)
    /\ purchases \in Seq([tier : Paid, expires : Nat])
    /\ subscriptionTier \in Paid \cup {Access}
    /\ subscriptionExpiresAt \in Nat
    /\ unlimited = Effective(subscriptionTier, subscriptionExpiresAt, time)
    /\ ver \in [Verification ->
                  {VerIdle, VerEnded, [pc |-> "askApple"]}
                  \cup [pc : {"write"}, tier : Paid, expires : Nat, receipt : BOOLEAN,
                        nth : Nat]]
    /\ confirmed \in Nat
    /\ fallback \in Nat
    /\ answers \in Nat
    /\ written \in Nat
    /\ reordered \in BOOLEAN

\* Purchases, renewals, verifications and expiries, however they fall into the
\* requests of the swipe quota, are to the quota what its own module allows: a
\* change of tier between two of its steps and nothing else.
QuotaSpec == Spec

\* As long as verifications are written in the order in which Apple answered
\* them, and however they overlap, a user whose receipt was verified is unlimited
\* until the latest expiry a receipt has shown: no renewal, no receipt verified
\* again and no restart cuts it short.  Only a verification by product id does,
\* until the next receipt, and then to its own month.
VerifiedIsUnlimited ==
    /\ ~reordered
    /\ confirmed # Never /\ time <= confirmed
    /\ fallback # Never => time <= fallback
    => unlimited
=============================================================================
