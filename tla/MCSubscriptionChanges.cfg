CONSTANTS
    r1 = r1  r2 = r2  q1 = q1  q2 = q2
    Nobody = Nobody
    Requests = {r1, r2}
    Asks = {q1, q2}
    Plans = {"basic", "fast"}
    Addons = {"tv"}
    FirstPlan = "basic"
    Offers <- MCOffers
    Verdicts = {"APPROVED", "APPLIED"}
    StaffStatuses = {}
    MaxBuilt = 2
    MaxEdits = 1
SPECIFICATION Spec
SYMMETRY MCSymmetry
INVARIANTS
    TypeOK
    ItemsMatchAmount
    AppliedMeansDone
    AppliedOnce
CHECK_DEADLOCK FALSE
