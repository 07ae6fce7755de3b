CONSTANTS
    i1 = i1  r1 = r1  r2 = r2
    Redis = "redis"
    Instances = {i1}
    Requests = {r1, r2}
    Contents <- MCContents
    Failures = TRUE
SPECIFICATION Spec
SYMMETRY MCSymmetry
INVARIANTS
    TypeOK
    BehindIsCleared
CHECK_DEADLOCK FALSE
