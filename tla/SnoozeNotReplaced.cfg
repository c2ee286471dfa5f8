SPECIFICATION FairSpec
CONSTANTS
    Entities = {e1}
    Clients = {c1}
    Workers = {w1}
    Ladders <- JustOne
    DefaultLadder <- TwoRungs
    MaxRungs = 2
    MaxInterval = 3
    SnoozeDelays = {1}
    RescheduleDates = {0, 2}
    SweepLimit = 2
    Attempts = 2
    Ops = {"schedule", "snooze"}
    Ratings = {"medium"}
    RedisConfigured = TRUE
    IdAccepted = {TRUE}
    MaxRevs = 1
    MaxTime = 3
    MaxFaults = 0
    SnoozeCap = 0
PROPERTY SnoozedIsFired
CHECK_DEADLOCK FALSE
