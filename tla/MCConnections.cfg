CONSTANTS
    User = {alice, bob}
    Request = {r1, r2, r3, r4}
SPECIFICATION Spec
SYMMETRY Symmetry
INVARIANTS
    ConnectedOnlyIfBothAsked
    ConnectionsSymmetric
    MutualRequestConnects
    AnnouncedIsConnected
CHECK_DEADLOCK FALSE
