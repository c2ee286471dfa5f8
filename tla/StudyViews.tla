----------------------------- MODULE StudyViews -----------------------------
(***************************************************************************)
(* The views that read the user's documents, side by side: what the home   *)
(* screen and the analytics say of the same documents.                     *)
(***************************************************************************)
EXTENDS Dashboard, Analytics

\* The figures of the day are the same wherever the user looks: on the home
\* screen, among its goals, in today's cell of the heatmap, in the list the nightly
\* summary is written from and in the sessions' own summary (but for sessions
\* that were entered ahead of their day).  Each of them selects by its own
\* condition on status and time.
TodayAgrees ==
    Settled =>
    LET cells == getHeatmap(LIFETIME_MAX_DAYS)
        today == {i \in DOMAIN cells : cells[i].date = dayKey}
        Says(name, n) ==
            IF today = {} THEN n = 0 ELSE \A i \in today : cells[i].breakdown[name] = n
        stats == buildQuickStats
        goals == buildDailyGoals
        totals == summary
        ahead == {id \in Sessions : docs[id].at > endOfDay}
    IN /\ \A n \in {stats.tasksCompleted, goals.tasksDone, Cardinality(findCompletedSince(startOfDay))} :
              Says("tasks", n)
       /\ \A n \in {stats.problemsSolved, goals.problemsDone} : Says("problems", n)
       /\ totals.weekMinutes = MinutesOf(Sessions)
       /\ totals.todayMinutes = stats.studyMinutesToday + MinutesOf(ahead)

\* "each capped at a target so a single dimension cannot dominate the score": on
\* the home screen a week of nothing but studying scores at most its share of 40,
\* one of problems alone 30, one of tasks 20; in the weekly report sessions make
\* at most their quarter and the tenth for focus, problems a fifth.
ScoresAreCapped ==
    Settled =>
    LET score == computeWeeklyProductivityScore
        report == getWeeklyReport(now).productivityScore IN
    /\ score <= 100
    /\ DOMAIN docs = In("study_sessions") => score <= 40 /\ report <= 35
    /\ DOMAIN docs = In("problems") => score <= 30 /\ report <= 20
    /\ DOMAIN docs = In("tasks") => score <= 20

=============================================================================
