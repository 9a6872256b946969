------------------------------- MODULE MCFeed -------------------------------
(* Feed with four other users on pages of two, and four ways to filter.   *)
EXTENDS Feed

User(born, followers, miles, niche) ==
    [born |-> born, followers |-> followers, miles |-> miles, niche |-> niche]

\* Born on the first of January 2000, in the middle of 2000 and of 1990, and
\* 2005; at the edge of the free plan, within it, beyond it, and nowhere.
MCProfile == <<User(4000, 5, 50, "art"), User(4001, 9, 10, "art"),
               User(3981, 9, 60, "food"), User(4010, 5, Nowhere, "art")>>

Ask(minAge, maxAge, minFollowers, maxDistance, niche) ==
    [minAge |-> minAge, maxAge |-> maxAge, minFollowers |-> minFollowers,
     maxFollowers |-> 0, maxDistance |-> maxDistance, niche |-> niche]

MCQuery == {Ask(None, 0, 0, 0, {}),
            Ask(20, 25, 8, 40, {"art"}),
            Ask(0, 40, 6, 100, {}),
            Ask(25, 0, 0, -1, {})}
=============================================================================
