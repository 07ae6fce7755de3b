CONSTANTS
    r1 = r1  r2 = r2  a1 = a1  a2 = a2
    Nobody = Nobody
    Requests = {r1, r2}
    Apps = {a1, a2}
    Mobiles = {"m1", "m2"}
    Emails = {"e1"}
    Contacts <- MCContacts
    Applicants <- MCApplicants
    Targets <- MCTargets
    MaxDeletes = 1
SPECIFICATION Spec
SYMMETRY MCSymmetry
INVARIANTS
    TypeOK
    ApprovedIsProvisioned
    HistoryIsWhole
    UnapprovedIsNotServed
    ServiceIsTheApplicants
CHECK_DEADLOCK FALSE
