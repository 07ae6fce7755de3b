CONSTANTS
    register = register  apply = apply
    r1 = r1  r2 = r2
    Contacts = {register, apply}
    Requests = {r1, r2}
    MaxAttempts = 2
    HourlyMax = 1
    MaxCodes = 4
SPECIFICATION Spec
SYMMETRY MCSymmetry
CONSTRAINT MCLater
INVARIANTS
    TypeOK
    GuessesBounded
    OneLiveCode
    OneOpeningEach
CHECK_DEADLOCK FALSE
