SPECIFICATION FairSpec
CHECK_DEADLOCK FALSE
CONSTANTS
    Users = {u1, u2}
    Reflecting = {u1}
    Habits = {h1, h2}
    Kept = {h1}
    Jobs = {"weekly_report", "recalculate_streaks", "habit_reminder", "reflection_reminder"}
    Attempts = 2
    thresholdDays = 3
    MaxDay = 3
    MaxRuns = 2
    MaxFaults = 1
INVARIANT TypeOK
INVARIANT SweepTellsEachOnce
INVARIANT WarnedStreakIsAlive
PROPERTY ReportsAreWritten
