CONSTANTS
    r1 = r1  r2 = r2
    Requests = {r1, r2}
    Traffic = {{"login", "refresh", "change"},
               {"login", "refresh", "reset"},
               {"login", "guess", "forgot", "reset"}}
    StaffStatuses = {"ACTIVE", "SUSPENDED"}
    MaxFailed = 2
    MaxTokens = 3
    MaxLinks = 2
    MaxPasswords = 2
SPECIFICATION Spec
SYMMETRY MCSymmetry
INVARIANTS
    TypeOK
    OldPasswordSessionsEnd
    OneHead
    GuessesBounded
PROPERTIES
    EndedStaysEnded
CHECK_DEADLOCK FALSE
