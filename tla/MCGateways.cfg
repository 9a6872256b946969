CONSTANTS
    User = {alice, bob}
    Socket = {s1, s2, s3}
    Message = {m1, m2}
SPECIFICATION Spec
SYMMETRY Symmetry
INVARIANTS
    EntryIsOwnOpenSocket
    NewestDeviceReachable
PROPERTIES
    ChatGatewayIsPresence
    EmitsReachReceiver
CHECK_DEADLOCK FALSE
