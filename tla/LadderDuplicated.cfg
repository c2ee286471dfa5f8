SPECIFICATION Spec
CONSTANTS
    Entities = {e1}
    Clients = {c1}
    Workers = {w1}
    Ladders <- OneOrTwo
    DefaultLadder <- TwoRungs
    MaxRungs = 2
    MaxInterval = 3
    SnoozeDelays = {1}
    RescheduleDates = {0}
    SweepLimit = 2
    Attempts = 2
    Ops = {"schedule", "complete"}
    Ratings = {"medium"}
    RedisConfigured = FALSE
    IdAccepted = {TRUE}
    MaxRevs = 3
    MaxTime = 2
    MaxFaults = 0
    SnoozeCap = 0
INVARIANT LadderNotDuplicated
CHECK_DEADLOCK FALSE
