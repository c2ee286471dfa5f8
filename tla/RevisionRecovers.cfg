SPECIFICATION FairSpec
CONSTANTS
    Entities = {e1}
    Clients = {c1}
    Workers = {w1}
    Ladders <- JustOne
    DefaultLadder <- TwoRungs
    MaxRungs = 2
    MaxInterval = 3
    SnoozeDelays = {1}
    RescheduleDates = {0, 2}
    SweepLimit = 1
    Attempts = 2
    Ops = {"schedule", "skip", "snooze"}
    Ratings = {"medium"}
    RedisConfigured = TRUE
    IdAccepted = {TRUE, FALSE}
    MaxRevs = 2
    MaxTime = 3
    MaxFaults = 1
    SnoozeCap = 0
PROPERTY OverdueIsSwept
CHECK_DEADLOCK FALSE
