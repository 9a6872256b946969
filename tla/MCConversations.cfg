SPECIFICATION Spec
CONSTANTS
    a = a
    b = b
    b1 = b1
    b2 = b2
    c1 = c1
    c2 = c2
    User = {a, b}
    Socket = {b1, b2}
    Owner <- DeviceOwner
    Conversation = {c1, c2}
    NoConversation = none
    Opens <- Windows
    Participants <- Pairs
    Used = {c1}
    Request = {r1, r2, r3}
    Overlap = 2
    MaxMessages = 2
SYMMETRY Symmetry
INVARIANTS
    CurrentIsHeard
    CountsExactOneAtATime
    RowsLoseNoSend
PROPERTY SeenStaysOneAtATime
CHECK_DEADLOCK FALSE
