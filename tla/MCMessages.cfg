CONSTANTS
    Call = {r1, r2, r3, r4}
    Kinds = {"socket", "rest", "markAsRead", "reset"}
SPECIFICATION MessagesSpec
SYMMETRY Symmetry
INVARIANTS
    BadgeNotInflated
    NoCountLostBySends
    BadgeExactOneAtATime
CHECK_DEADLOCK FALSE
