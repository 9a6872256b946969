-------------------------------- MODULE Feed --------------------------------
(***************************************************************************)
(* The feed a user swipes through: UsersService.findAll over               *)
(* paginationWithAggregation, together with the calls that change what it  *)
(* lists while somebody scrolls: likes, passes, rewinds, blocks, and the   *)
(* users who register, become ACTIVE or leave that status.                 *)
(*                                                                         *)
(* A page is three calls: the user's own document (whom to leave out, the  *)
(* tier, the place), a count, and the documents at an offset.  The client  *)
(* asks for one page after another while hasNext says so, and the list     *)
(* may be another one at each of these calls.                              *)
(***************************************************************************)
EXTENDS Integers, Sequences, FiniteSets, SequencesExt

CONSTANTS
    MaxUsers,       \* bound: how many other users ever sign up
    Profile,        \* what the filters look at: born, followers, miles, niche
    Query,          \* the filters a client may ask for
    None,           \* a least age that the client does not send
    MyNiche,        \* user.niche
    LocalMiles,     \* TIER_LIMITS.creator_access.maxLocalMatchMiles
    Year,           \* the current year
    Limit,          \* the page size, 10 unless the client says otherwise
    MaxChanges      \* bound: changes to the lists in all

\* The other users, numbered in the natural order of the collection.
Other == 1..MaxUsers

ASSUME LimitAssumption ==
    /\ MaxUsers \in Nat /\ Limit \in Nat \ {0} /\ LocalMiles \in Nat \ {0}
    /\ Year \in Int

ASSUME ProfileAssumption ==
    \A u \in Other :
        Profile[u].born \in Int /\ Profile[u].followers \in Int /\ Profile[u].miles \in Int

\* The body is not validated: any number may come, and a bound that is 0 is as
\* good as one that is not sent, but for the least age.
ASSUME QueryAssumption ==
    /\ None \notin Int
    /\ \A q \in Query :
        /\ q.minAge \in Int \cup {None} /\ q.maxAge \in Int /\ q.maxDistance \in Int
        /\ q.minFollowers \in Int /\ q.maxFollowers \in Int

VARIABLES
    registered,     \* how many of them have signed up
    inactive,       \* those of them whose status is not ACTIVE
    myDoc,          \* what findAll reads of my document: the lists of users to
                    \* leave out, whether my tier has advancedFilters and no limit
                    \* of miles, and whether there are location.coordinates
    fetch,          \* the page being fetched
    changes,        \* changes made so far
    \* History of the scroll, read by the properties only:
    shown,          \* users shown
    repeats,        \* how often somebody was shown who had been shown before
    steady,         \* users listed ever since the scroll began
    entered, left,  \* how often a user has entered or left the list since
    asAsked         \* every user shown was one the filters ask for

world == <<registered, inactive, myDoc>>
scroll == <<shown, repeats, steady, entered, left, asAsked>>
feedVars == <<world, fetch, changes, scroll>>

Nowhere == -1       \* a user without coordinates

-----------------------------------------------------------------------------
(* The filters.  Time is counted in half years, and 2 * y is the first of  *)
(* January of year y.                                                      *)

AgeToDOB(age) == 2 * (Year - age)

\* Both bounds of an age: a least age of 0 counts where there is a greatest.
BothAges(q) == q.minAge # None /\ q.minAge >= 0 /\ q.maxAge # 0

\* A least age alone, or one below 0, asks for who was born later; a greatest age
\* alone for who was born before.
InAgeRange(u, q) ==
    LET born == Profile[u].born
    IN  /\ BothAges(q) => born <= AgeToDOB(q.minAge) /\ born >= AgeToDOB(q.maxAge)
        /\ ~BothAges(q) /\ q.minAge \notin {None, 0} => born >= AgeToDOB(q.minAge)
        /\ q.minAge = None /\ q.maxAge # 0 => born <= AgeToDOB(q.maxAge)

\* Mutant: the plan's limit is no bound for a distance that is asked for.
AllowedMilesAsAsked(asked, isPaid) ==
    IF isPaid \/ asked # 0 THEN asked ELSE LocalMiles

\* The distance to search.  Only a positive one becomes a filter: on the free plan
\* a distance below 0 stays below 0, and lifts the plan's own limit.
AllowedMiles(asked, isPaid) ==
    IF isPaid THEN asked
    ELSE IF asked = 0 \/ asked > LocalMiles THEN LocalMiles ELSE asked

InReach(u, miles) == Profile[u].miles # Nowhere /\ Profile[u].miles <= miles

NicheOf(q) == IF q.niche # {} THEN q.niche ELSE MyNiche

\* customQueries but for the ids: f is the filter as the request has read it.
\* gender, willingToTravel and questionAndAnswers are tests like the niche.
Fits(u, f) ==
    LET q == f.query
        miles == AllowedMiles(q.maxDistance, f.paid)
    IN  /\ NicheOf(q) # {} => Profile[u].niche \in NicheOf(q)
        /\ InAgeRange(u, q)
        /\ f.paid /\ q.minFollowers # 0 => Profile[u].followers >= q.minFollowers
        /\ f.paid /\ q.maxFollowers # 0 => Profile[u].followers <= q.maxFollowers
        /\ miles > 0 /\ f.place => InReach(u, miles)

IdsToExclude == myDoc.likedByMe \cup ToSet(myDoc.unLikedByMe) \cup myDoc.blockUsers

FilterNow(q) ==
    [query |-> q, exclude |-> IdsToExclude, paid |-> myDoc.paid, place |-> myDoc.place]

\* What $match leaves of the collection.
Listed(f) ==
    {u \in 1..registered : u \notin inactive \cup f.exclude /\ Fits(u, f)}

-----------------------------------------------------------------------------
(* The scroll.                                                             *)

Resting == [pc |-> "rest"]
ScrollOf(q) == Listed(FilterNow(q))

FeedInit ==
    /\ registered \in 0..MaxUsers
    /\ inactive = {}
    /\ \E paid, place \in BOOLEAN :
           myDoc = [likedByMe |-> {}, unLikedByMe |-> <<>>, blockUsers |-> {},
                    paid |-> paid, place |-> place]
    /\ fetch = Resting
    /\ changes = 0
    /\ shown = {} /\ repeats = 0 /\ steady = {} /\ entered = 0 /\ left = 0
    /\ asAsked = TRUE

FindMe(q, page) ==
    fetch' = [pc |-> "count", query |-> q, page |-> page, filter |-> FilterNow(q)]

\* A new scroll, of any filter.
Open ==
    /\ fetch.pc = "rest"
    /\ \E q \in Query : FindMe(q, 1) /\ steady' = ScrollOf(q)
    /\ UNCHANGED <<world, changes, shown, repeats, entered, left, asAsked>>

\* The client asks for the page after one that has a next.
More ==
    /\ fetch.pc = "more"
    /\ FindMe(fetch.query, fetch.page + 1)
    /\ UNCHANGED <<world, changes, scroll>>

Count ==
    /\ fetch.pc = "count"
    /\ fetch' = [pc |-> "data", query |-> fetch.query, page |-> fetch.page,
               filter |-> fetch.filter, total |-> Cardinality(Listed(fetch.filter))]
    /\ UNCHANGED <<world, changes, scroll>>

\* Mutant: pages are counted from zero.
StartIndexFromZero(page) == page * Limit

\* Mutant: the last user of a page is shown again on the next.
StartIndexOverlaps(page) == IF page = 1 THEN 0 ELSE (page - 1) * Limit - 1

StartIndex(page) == (page - 1) * Limit

\* $skip and $limit: those with as many listed before them as the page starts at.
Before(u, all) == Cardinality({v \in all : v < u})

PageOf(f, page) ==
    LET all == Listed(f)
        start == StartIndex(page)
    IN  {u \in all : Before(u, all) \in start..start + Limit - 1}

\* What the client may expect of a user it is shown: an age within both bounds on
\* every day of this year, a distance within its own wish and, unless it asked for
\* one below 0, within the free plan, the niche it named, and followers if it pays
\* for that.
Wanted(u, f) ==
    LET q == f.query
        p == Profile[u]
        AgesThisYear == {(2 * Year - p.born) \div 2, (2 * Year + 1 - p.born) \div 2}
    IN  /\ BothAges(q) => AgesThisYear \subseteq q.minAge..q.maxAge
        /\ f.place /\ q.maxDistance > 0 => InReach(u, q.maxDistance)
        /\ f.place /\ ~f.paid /\ q.maxDistance >= 0 => InReach(u, LocalMiles)
        /\ q.niche # {} => p.niche \in q.niche
        /\ f.paid /\ q.minFollowers # 0 => p.followers >= q.minFollowers
        /\ f.paid /\ q.maxFollowers # 0 => p.followers <= q.maxFollowers

Forget ==
    /\ fetch' = Resting
    /\ shown' = {} /\ repeats' = 0 /\ steady' = {} /\ entered' = 0 /\ left' = 0
    /\ UNCHANGED asAsked

\* The page.  An empty page reports totalRecords = 0; a page that has somebody
\* although the count had nobody fails on totalDoc[0].
Data ==
    LET result == PageOf(fetch.filter, fetch.page)
        total == IF result = {} THEN 0 ELSE fetch.total
        hasNext == fetch.page * Limit < total
    IN  /\ fetch.pc = "data"
        /\ IF result # {} /\ fetch.total = 0
           THEN Forget
           ELSE /\ fetch' = [pc |-> IF hasNext THEN "more" ELSE "end",
                           query |-> fetch.query, page |-> fetch.page]
                /\ shown' = shown \cup result
                /\ repeats' = repeats + Cardinality(shown \cap result)
                /\ asAsked' = (asAsked /\ \A u \in result : Wanted(u, fetch.filter))
                /\ UNCHANGED <<steady, entered, left>>
        /\ UNCHANGED <<world, changes>>

\* The client starts again, or a call fails, or the server restarts.
Leave ==
    /\ fetch.pc # "rest"
    /\ Forget
    /\ UNCHANGED <<world, changes>>

-----------------------------------------------------------------------------
(* What changes the list meanwhile.                                        *)

\* The list a request reading now would be given, and the list of the request in
\* flight, which leaves out what it read.
ListedNow == IF fetch.pc = "rest" THEN {} ELSE ScrollOf(fetch.query)
ListedInFlight == IF fetch.pc \in {"count", "data"} THEN Listed(fetch.filter) ELSE {}

\* The history of one change.
Recorded ==
    /\ UNCHANGED <<fetch, shown, repeats, asAsked>>
    /\ changes < MaxChanges
    /\ changes' = changes + 1
    /\ entered' = entered + Cardinality((ListedNow' \ ListedNow)
                                        \cup (ListedInFlight' \ ListedInFlight))
    /\ left' = left + Cardinality((ListedNow \ ListedNow')
                                  \cup (ListedInFlight \ ListedInFlight'))
    /\ steady' = steady \cap ListedNow'

\* Anybody's id can be swiped or blocked, the users the feed has shown foremost.
Like(u) ==
    /\ myDoc' = [myDoc EXCEPT !.likedByMe = @ \cup {u},
                             !.unLikedByMe = SelectSeq(@, LAMBDA w : w # u)]
    /\ UNCHANGED <<registered, inactive>>

Pass(u) ==
    /\ myDoc' = [myDoc EXCEPT !.likedByMe = @ \ {u}, !.unLikedByMe = Append(@, u)]
    /\ UNCHANGED <<registered, inactive>>

\* The last pass is taken back.
Rewind ==
    /\ myDoc.unLikedByMe # <<>>
    /\ myDoc' = [myDoc EXCEPT !.unLikedByMe = Front(@)]
    /\ UNCHANGED <<registered, inactive>>

Block(u) ==
    /\ myDoc' = [myDoc EXCEPT !.blockUsers = @ \cup {u}]
    /\ UNCHANGED <<registered, inactive>>

Register ==
    /\ registered < MaxUsers
    /\ registered' = registered + 1
    /\ inactive' = inactive \cup {registered + 1}
    /\ UNCHANGED myDoc

\* Others verify their code, or patch their status.
SetStatus(u) ==
    /\ inactive' = IF u \in inactive THEN inactive \ {u} ELSE inactive \cup {u}
    /\ UNCHANGED <<registered, myDoc>>

\* A purchase, an expiry; a position is saved.
ChangeMe ==
    /\ \/ myDoc' = [myDoc EXCEPT !.paid = ~@]
       \/ ~myDoc.place /\ myDoc' = [myDoc EXCEPT !.place = TRUE]
    /\ UNCHANGED <<registered, inactive>>

Change ==
    /\ \/ \E u \in 1..registered :
              Like(u) \/ Pass(u) \/ Block(u) \/ SetStatus(u)
       \/ Rewind
       \/ Register
       \/ ChangeMe
    /\ Recorded

FeedNext == Open \/ More \/ Count \/ Data \/ Leave \/ Change

FeedSpec == FeedInit /\ [][FeedNext]_feedVars

-----------------------------------------------------------------------------
(* Properties.                                                             *)

\* When a scroll comes to its end, every user who was listed all the time and
\* was never shown is paid for by another who entered or left the list, or the
\* list of the request in flight: nothing else makes offset paging skip a user,
\* and a scroll during which nothing changes shows everybody.
SkippedOnlyByChanges ==
    fetch.pc = "end" => Cardinality(steady \ shown) <= entered + left

\* A user is shown again only when the list has grown in between, and at most
\* once for each user who entered it.
RepeatedOnlyByEntries == repeats <= entered

\* Nobody is shown whom the filters rule out, whatever the tier clamps or ignores
\* and although tier and place may change between the calls of a page: ages when
\* both bounds are sent, distance, niche and followers.  The limit of the free plan
\* is not promised to a client that asks for a distance below 0.
ShownAsAsked == asAsked
=============================================================================
