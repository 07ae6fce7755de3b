CONSTANTS
    s1 = s1  s2 = s2  s3 = s3
    w1 = w1  w2 = w2  r1 = r1
    Runs = {w1}
    Requests = {r1}
    Subs = {s1, s2, s3}
    Broken = {s3}
    PageSize = 2
    StaffStatuses = {}
    StaffMonths = {}
    Horizon = 2
    MaxFaults = 1
SPECIFICATION FairSpec
CHECK_DEADLOCK FALSE
PROPERTIES
    DueMonthsGetBilled
