CONSTANTS
    User = {alice, bob}
    Request = {r1, r2, r3, r4}
    Kinds = {"like", "unlike", "rewind", "chat"}
SPECIFICATION Spec
SYMMETRY Symmetry
INVARIANTS
    MatchIsMutual
    LikesAgree
    OneChatPerMatch
    EveryLikeNotified
    NoPassUndoneTwice
CHECK_DEADLOCK FALSE
