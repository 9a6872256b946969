CONSTANTS
    Request = {r1, r2}
    Name = {n1}
    Limit = 2
    MaxGallery = 1
SPECIFICATION Spec
INVARIANTS
    FlagWhileTranscoding
CHECK_DEADLOCK FALSE
