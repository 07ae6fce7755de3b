CONSTANTS
    o1 = o1
    b1 = b1  b2 = b2  s1 = s1
    Orders = {o1}
    Browsers = {b1, b2}
    Staff = {s1}
    MaxAttempts = 2
    ResendMax = 1
    MaxCodes = 3
    MaxCrashes = 1
SPECIFICATION Spec
SYMMETRY MCSymmetry
INVARIANTS
    TypeOK
    ConfirmedHasSubscription
    GuessesBounded
    OneSubscriptionUnlessCrashed
CHECK_DEADLOCK FALSE
