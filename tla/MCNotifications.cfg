CONSTANTS
    w1 = w1  w2 = w2
    Fanouts <- MCFanouts
    Workers = {w1, w2}
    Attempts = 2
    MaxStalled = 1
    MaxFaults = 3
SPECIFICATION FanoutSpec
INVARIANTS
    FanoutTypeOK
    SentOnceUnlessDisturbed
    OutcomeIsTrue
PROPERTIES
    EveryChannelSettles
CHECK_DEADLOCK FALSE
