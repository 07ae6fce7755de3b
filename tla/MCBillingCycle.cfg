CONSTANTS
    s1 = s1  s2 = s2  s3 = s3
    w1 = w1  w2 = w2  r1 = r1
    Runs = {w1, w2}
    Requests = {r1}
    Subs = {s1, s2}
    Broken = {}
    PageSize = 2
    StaffStatuses = {}
    StaffMonths = {}
    Horizon = 3
    MaxFaults = 1
SPECIFICATION Spec
SYMMETRY MCSymmetry
INVARIANTS
    TypeOK
    InvoicesDistinct
    NoUnbilledPeriod
    NeverBilledAhead
CHECK_DEADLOCK FALSE
