SPECIFICATION Spec
CHECK_DEADLOCK FALSE
SYMMETRY ClientSymmetry
CONSTANTS
    Clients = {c1, c2}
    Targets <- OneAndTwo
    Zone = 1
    HISTORY_WINDOW_DAYS = 2
    MaxDay = 3
    MaxCount = 2
    MaxRequests = 4
INVARIANT TypeOK
INVARIANT CountersFitLog
INVARIANT LongestCoversLog
INVARIANT ViewsAgree
PROPERTY StreakSurvivesMidnight
