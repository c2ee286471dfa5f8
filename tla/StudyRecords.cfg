SPECIFICATION Spec
CHECK_DEADLOCK FALSE
SYMMETRY ClientSymmetry
CONSTANTS
    Clients = {c1, c2}
    Collections = {"tasks", "study_sessions", "reflections", "notes", "problems", "revisions", "habits"}
    DayTicks = 2
    DaysPerWeek = 2
    Dates = {2, 4}
    Reminders = {3}
    Statuses = {"pending", "completed"}
    Solving = {"in_progress", "completed"}
    Minutes = {60}
    MaxTime = 4
    MaxDocs = 2
    MaxRequests = 3
    PENDING_REVISIONS_LIMIT = 1
    TODAYS_TASKS_LIMIT = 1
    UPCOMING_REMINDERS_LIMIT = 1
    UPCOMING_SCHEDULE_LIMIT = 1
    TARGET_STUDY_MINUTES = 60
    TARGET_PROBLEMS = 1
    TARGET_TASKS = 1
    TARGET_REFLECTION_DAYS = 1
    RangeDays = 2
    LIFETIME_MAX_DAYS = 10
    HealthyHours = 1
    HealthyProblems = 1
    HealthySessions = 1
INVARIANT TypeOK
INVARIANT CompletedIsDated
INVARIANT PagesCoverList
INVARIANT OpenWorkIsShown
INVARIANT ScoresAreCapped
INVARIANT ActivityCountsOnce
INVARIANT StreaksAreRuns
INVARIANT TodayAgrees
