SPECIFICATION Spec
CONSTANTS
    Entities = {e1}
    Clients = {c1}
    Workers = {w1}
    Ladders <- JustOne
    DefaultLadder <- TwoRungs
    MaxRungs = 2
    MaxInterval = 3
    SnoozeDelays = {1}
    RescheduleDates = {0}
    SweepLimit = 2
    Attempts = 2
    Ops = {"schedule", "complete", "reschedule"}
    Ratings = {"medium"}
    RedisConfigured = TRUE
    IdAccepted = {TRUE, FALSE}
    MaxRevs = 2
    MaxTime = 2
    MaxFaults = 1
    SnoozeCap = 0
INVARIANT TypeOK
INVARIANT ReminderNotEarly
PROPERTY KeepsPromise
PROPERTY DeletedStaysDeleted
CHECK_DEADLOCK FALSE
