SPECIFICATION Spec
CONSTANTS
    Callers = {c1, c2}
    Queries = {q1, q2}
    TTL = 1
    MaxTime = 3
SYMMETRY MCSymmetry
CHECK_DEADLOCK FALSE
INVARIANTS
    TypeOK
    NoRevival
PROPERTIES
    OnlyOthersGoBack
