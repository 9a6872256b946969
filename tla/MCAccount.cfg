CONSTANTS
    Request = {r1, r2, r3}
    Token = {t1, t2}
SPECIFICATION Spec
SYMMETRY Symmetry
INVARIANTS
    FreshCodeStays
    LoggedOutSilent
PROPERTIES
    CheckedCodeIsCurrent
    CodeSpentOnceAtATime
CHECK_DEADLOCK FALSE
