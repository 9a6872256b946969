CONSTANTS
    Request = {r1, r2}
    Limit = 2
    MaxDay = 2
    MaxSent = 6
SPECIFICATION Spec
INVARIANTS
    CounterOverrunBounded
    LimitKeptOneAtATime
PROPERTIES
    RefusedOnlyWhenSpent
SYMMETRY Symmetry
