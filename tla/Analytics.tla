----------------------------- MODULE Analytics -----------------------------
(***************************************************************************)
(* The heatmap, the streaks and the weekly report: what the analytics      *)
(* service works out of the user's documents.                              *)
(*                                                                         *)
(* A missing field stays missing here: a session's document has neither    *)
(* completedAt nor startedAt (it has startTime), and a habit's has no      *)
(* completedDates (it has completions), so both fall back to what ?? names.*)
(* Definitions marked "slip" are wrong versions of the one that follows.   *)
(***************************************************************************)
EXTENDS StudyRecords

CONSTANTS
    RangeDays,         \* days of the fixed heatmap range
    LIFETIME_MAX_DAYS,
    HealthyHours, HealthyProblems, HealthySessions   \* a healthy week; all 14 in the code

ASSUME RangesAssumption ==
    /\ RangeDays \in Nat \ {0} /\ LIFETIME_MAX_DAYS \in Nat \ {0}
    /\ {HealthyHours, HealthyProblems, HealthySessions} \subseteq Nat \ {0}

Or(time, fallback) == IF time # Absent THEN time ELSE fallback

\* What a document contributes, and when; a habit's log is not read.
ActivityAt(doc) ==
    CASE doc.collection = "study_sessions" -> doc.createdAt
      [] doc.collection \in {"problems", "revisions", "tasks"} /\ doc.status = "completed" ->
            Or(doc.doneAt, doc.updatedAt)
      [] OTHER -> Absent

-----------------------------------------------------------------------------
(* The heatmap: one cell for each day with a contribution.                  *)

startKey(days) == dayKey - (days - 1)

Contributions(days) ==
    {id \in DOMAIN docs : /\ ActivityAt(docs[id]) # Absent
                          /\ dayKeyOf(ActivityAt(docs[id])) \in startKey(days) .. dayKey}

Breakdown(contributions, day) ==
    [name \in {"study_sessions", "problems", "revisions", "tasks", "habits"} |->
        Cardinality({id \in contributions \intersect In(name) : dayKeyOf(ActivityAt(docs[id])) = day})]

ActiveDays(contributions) == {dayKeyOf(ActivityAt(docs[id])) : id \in contributions}

getHeatmap(days) ==
    LET contributions == Contributions(days)
        ordered == Ascending(ActiveDays(contributions))
    IN [i \in DOMAIN ordered |->
           [date |-> ordered[i], breakdown |-> Breakdown(contributions, ordered[i])]]

CountOf(cell) ==
    cell.breakdown["study_sessions"] + cell.breakdown["problems"] + cell.breakdown["revisions"]
        + cell.breakdown["tasks"] + cell.breakdown["habits"]

totalContributions(cells) == Total([i \in DOMAIN cells |-> CountOf(cells[i])])

-----------------------------------------------------------------------------
(* The streaks: runs of days, and of weeks, with a contribution.            *)

\* Slip: the run is not reset by a gap.
longestRunOverGaps(keys, step) == Len(keys)

\* One pass over the ordered keys; the next key continues the run if it is one step on.
RunsOf(keys, step) ==
    LET run[i \in 0 .. Len(keys)] ==
            IF i = 0 THEN 0
            ELSE IF i > 1 /\ keys[i - 1] + step = keys[i] THEN run[i - 1] + 1 ELSE 1
    IN run

longestRun(keys, step) == Max(Range(RunsOf(keys, step)))

\* Backwards through the active keys, a step at a time.
RunBefore(active, today, step) ==
    LET back[key \in -2 * step .. today] == IF key \in active THEN 1 + back[key - step] ELSE 0 IN
    back

\* Slip: the streak is over until today has something.
currentRunToday(active, today, step) == RunBefore(active, today, step)[today]

\* From today, or from the step before while today has nothing yet.
currentRun(active, today, step) ==
    RunBefore(active, today, step)[IF today \in active THEN today ELSE today - step]

getStreaks ==
    LET cells == getHeatmap(LIFETIME_MAX_DAYS)
        activeKeys == [i \in DOMAIN cells |-> cells[i].date]
        activeSet == Range(activeKeys)
        activeWeeks == {startOfIsoWeek(day * DayTicks) : day \in activeSet}
        currentDaily == currentRun(activeSet, dayKey, 1)
    IN [currentDailyStreak |-> currentDaily, longestDailyStreak |-> longestRun(activeKeys, 1),
        currentWeeklyStreak |-> currentRun(activeWeeks, startOfIsoWeek(now), WeekTicks),
        longestWeeklyStreak |-> longestRun(Ascending(activeWeeks), WeekTicks),
        lastActiveDate |-> IF activeKeys = <<>> THEN Absent ELSE activeKeys[Len(activeKeys)],
        streakStartDate |-> IF currentDaily = 0 THEN Absent
                            ELSE (IF dayKey \in activeSet THEN dayKey ELSE dayKey - 1) - currentDaily + 1]

-----------------------------------------------------------------------------
(* The weekly report.                                                       *)

\* Slip: the end of the week belongs to it.
inWindowInclusive(t, weekStart) == t # Absent /\ t \in weekStart .. weekStart + WeekTicks

inWindow(t, weekStart) == t # Absent /\ t >= weekStart /\ t < weekStart + WeekTicks

\* Percentage helper: 0 when there is nothing due.
rate(completed, total) == IF total <= 0 THEN 0 ELSE (200 * completed + total) \div (2 * total)

\* The completions of the week over seven days of every active habit.
computeHabitRate ==
    LET active == {id \in In("habits") : ~docs[id].flag}
        completedDates == {}
    IN rate(Cardinality(completedDates), Cardinality(active) * DaysPerWeek)

DueRate(name, weekStart) ==
    LET due == {id \in In(name) : inWindow(docs[id].at, weekStart)} IN
    rate(Cardinality({id \in due : docs[id].status = "completed"}), Cardinality(due))

\* The documents of a collection whose activity falls into the week.
OfWeek(name, weekStart) == {id \in In(name) : inWindow(ActivityAt(docs[id]), weekStart)}

\* weight * Math.min(100, amount / healthy * 100), in units of 1 / scale.
Signal(amount, healthy, weight, scale) == (weight * scale * 100 * Min({amount, healthy})) \div healthy

\* A 0-100 blend; the weights are in hundredths, the hours in tenths.
productivityScore(input) ==
    LET scale == 10 * HealthyHours * HealthyProblems * HealthySessions
        composite ==
            Signal(input.studyHours, 10 * HealthyHours, 25, scale)
              + Signal(input.problemsSolved, HealthyProblems, 20, scale)
              + scale * (20 * input.revisionCompletionRate + 15 * input.taskCompletionRate
                           + 10 * input.habitCompletionRate)
              + Signal(input.focusSessions, HealthySessions, 10, scale)
    IN Min({100, (composite + 50 * scale) \div (100 * scale)})

getWeeklyReport(week) ==
    LET weekStart == startOfIsoWeek(week)
        sessions == OfWeek("study_sessions", weekStart)
        figures ==
            [studyHours |-> (MinutesOf(sessions) + 3) \div 6,
             problemsSolved |-> Cardinality(OfWeek("problems", weekStart)),
             focusSessions |-> Cardinality(sessions),
             revisionCompletionRate |-> DueRate("revisions", weekStart),
             taskCompletionRate |-> DueRate("tasks", weekStart),
             habitCompletionRate |-> computeHabitRate]
    IN [weekStart |-> weekStart, figures |-> figures, productivityScore |-> productivityScore(figures),
        longestSessionMinutes |-> Max({0} \union {docs[id].durationMinutes : id \in sessions})]

-----------------------------------------------------------------------------
(* Properties.                                                              *)

\* Every activity is counted once: on one day of a heatmap whose window it falls
\* into, and in one of the reports of successive weeks, at the very end or start of
\* a week as well.
ActivityCountsOnce ==
    Settled =>
    LET figures == [week \in 1 .. MaxTime \div WeekTicks + 1 |->
                       getWeeklyReport((week - 1) * WeekTicks).figures]
        active == {id \in DOMAIN docs : ActivityAt(docs[id]) # Absent}
    IN
    /\ Total([week \in DOMAIN figures |-> figures[week].problemsSolved]) =
           Cardinality({id \in In("problems") : docs[id].status = "completed"})
    /\ Total([week \in DOMAIN figures |-> figures[week].focusSessions]) =
           Cardinality(In("study_sessions"))
    /\ \A days \in {RangeDays, LIFETIME_MAX_DAYS} :
          totalContributions(getHeatmap(days)) =
              Cardinality({id \in active : dayKey - dayKeyOf(ActivityAt(docs[id])) < days})

Stretches(set) == {s \in set \X set : s[1] <= s[2] /\ s[1] .. s[2] \subseteq set}
LongestOf(stretches) == Max({0} \union {s[2] - s[1] + 1 : s \in stretches})

\* The streaks are what a reader of the heatmap would call them: the longest
\* stretch of active days, and the one that reaches today or yesterday; and so for
\* weeks.
StreaksAreRuns ==
    Settled =>
    LET cells == getHeatmap(LIFETIME_MAX_DAYS)
        streaks == getStreaks
        days == {cells[i].date : i \in DOMAIN cells}
        weeks == {startOfIsoWeek(day * DayTicks) \div WeekTicks : day \in days}
        Reaching(set, today) == {s \in Stretches(set) : s[2] \in {today - 1, today}}
    IN /\ streaks.longestDailyStreak = LongestOf(Stretches(days))
       /\ streaks.longestWeeklyStreak = LongestOf(Stretches(weeks))
       /\ streaks.currentDailyStreak = LongestOf(Reaching(days, dayKey))
       /\ streaks.currentWeeklyStreak = LongestOf(Reaching(weeks, now \div WeekTicks))

=============================================================================
