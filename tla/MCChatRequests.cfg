SPECIFICATION Spec
CONSTANTS
    User = {a, b}
    Elite = {b}
    ChatId = {c1, c2}
    Request = {r1, r2, r3}
    MaxTime = 3
SYMMETRY Symmetry
INVARIANTS
    OneChatOneAtATime
    ListedOnceAnswered
    UnreadExactOneAtATime
    AcceptedStaysShown
CHECK_DEADLOCK FALSE
