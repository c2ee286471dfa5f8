----------------------------- MODULE Dashboard -----------------------------
(***************************************************************************)
(* The home screen: what getDashboard works out of the documents.  It      *)
(* reads whole collections and filters in memory; it writes nothing.       *)
(*                                                                         *)
(* The goals and targets are constants here, small ones when checked, so   *)
(* that they are reached; the greeting and the quote are left out.         *)
(* Definitions marked "slip" are wrong versions of the one that follows.   *)
(***************************************************************************)
EXTENDS StudyRecords

CONSTANTS
    PENDING_REVISIONS_LIMIT, TODAYS_TASKS_LIMIT, UPCOMING_REMINDERS_LIMIT, UPCOMING_SCHEDULE_LIMIT,
    TARGET_STUDY_MINUTES, TARGET_PROBLEMS, TARGET_TASKS, TARGET_REFLECTION_DAYS

ASSUME TargetsAssumption ==
    /\ {PENDING_REVISIONS_LIMIT, TODAYS_TASKS_LIMIT,
        UPCOMING_REMINDERS_LIMIT, UPCOMING_SCHEDULE_LIMIT} \subseteq Nat
    /\ {TARGET_STUDY_MINUTES, TARGET_PROBLEMS, TARGET_TASKS, TARGET_REFLECTION_DAYS} \subseteq Nat \ {0}

OPEN_REVISION_STATUSES == {"scheduled", "due", "snoozed"}
OPEN_TASK_STATUSES == {"pending", "in_progress", "overdue"}

OpenRevisions == {id \in In("revisions") : docs[id].status \in OPEN_REVISION_STATUSES}
OpenTasks == {id \in In("tasks") : docs[id].status \in OPEN_TASK_STATUSES}

fetchStudySessionsSince(since) == {id \in In("study_sessions") : docs[id].at >= since}

fetchProblemsSolvedSince(since) ==
    {id \in In("problems") :
        docs[id].status = "completed" /\ docs[id].doneAt # Absent /\ docs[id].doneAt >= since}

fetchReflectionsSince(day) == {id \in In("reflections") : docs[id].at >= day}

Sessions == fetchStudySessionsSince(startOfIsoWeek(now))
Problems == fetchProblemsSolvedSince(startOfDay)
Reflections == fetchReflectionsSince(dayKeyOf(startOfIsoWeek(now)))

Today(t) == t \in startOfDay .. endOfDay

\* What a list of mixed documents is pushed together from; `place' is the place of
\* the loop that pushes the item.
Item(place, id, time) == [place |-> place, id |-> id, time |-> time]

\* The sort by time is stable.
ByTime(items) ==
    {p \in items \X items :
        \/ p[1].time < p[2].time
        \/ p[1].time = p[2].time /\ p[1].place < p[2].place
        \/ p[1].time = p[2].time /\ p[1].place = p[2].place /\ p[1].id < p[2].id}

\* The first `limit' of the items, by their time.
Earliest(items, limit) == slice(InOrder(items, ByTime(items)), 0, limit)

-----------------------------------------------------------------------------
(* Today's overview.                                                        *)

\* Slip: only what falls due today is pending, as with the tasks.
pendingToday == {id \in OpenRevisions : Today(docs[id].at)}

\* What is overdue is still to be revised.
pending == {id \in OpenRevisions : docs[id].at <= endOfDay}

pendingRevisions == slice(sortInMemory(docs, pending, "at", "asc"), 0, PENDING_REVISIONS_LIMIT)

todaysTasks ==
    LET due == {id \in OpenTasks : docs[id].at # Absent /\ Today(docs[id].at)} IN
    slice(sortInMemory(docs, due, "at", "asc"), 0, TODAYS_TASKS_LIMIT)

Reminding ==
    LET Soon(t) == t # Absent /\ t >= now /\ t <= endOfDay IN
    {Item(1, id, docs[id].at) : id \in {id \in OpenRevisions : Soon(docs[id].at)}}
        \union {Item(2, id, docs[id].reminderAt) : id \in {id \in OpenTasks : Soon(docs[id].reminderAt)}}

upcomingReminders == Earliest(Reminding, UPCOMING_REMINDERS_LIMIT)

CompletedToday(ids) == {id \in ids : docs[id].doneAt # Absent /\ Today(docs[id].doneAt)}

\* Slip: a task that was completed today counts though it was reopened.
tasksDoneToday == Cardinality(CompletedToday(In("tasks")))

tasksDone == Cardinality(CompletedToday({id \in In("tasks") : docs[id].status = "completed"}))

buildDailyGoals ==
    [studyMinutesDone |-> MinutesOf({id \in Sessions : Today(docs[id].at)}),
     problemsDone |-> Cardinality(CompletedToday(Problems)), tasksDone |-> tasksDone]

-----------------------------------------------------------------------------
(* The quick stats.                                                         *)

\* Math.round of a fraction.
Rounded(n, d) == (2 * n + d) \div (2 * d)

revisionCompletionPercent ==
    LET dueToday == {id \in In("revisions") : docs[id].at <= endOfDay}
        completed == {id \in dueToday : docs[id].status = "completed"}
    IN IF dueToday = {} THEN 100
       ELSE Rounded(100 * Cardinality(completed), Cardinality(dueToday))

\* Slip: the share of the target is not capped.
ShareUncapped(amount, target, weight, scale) == (weight * scale * amount) \div target

\* weight * Math.min(amount / target, 1), in units of 1 / scale.
Share(amount, target, weight, scale) == (weight * scale * Min({amount, target})) \div target

\* A 0-100 composite; scale makes every share a whole number.
Composite(minutes, problems, tasks, days) ==
    LET scale == TARGET_STUDY_MINUTES * TARGET_PROBLEMS * TARGET_TASKS * TARGET_REFLECTION_DAYS IN
    Rounded(Share(minutes, TARGET_STUDY_MINUTES, 40, scale) + Share(problems, TARGET_PROBLEMS, 30, scale)
              + Share(tasks, TARGET_TASKS, 20, scale) + Share(days, TARGET_REFLECTION_DAYS, 10, scale),
            scale)

reflectionDays == Cardinality({id \in Reflections : docs[id].flag})

computeWeeklyProductivityScore ==
    Composite(MinutesOf(Sessions), Cardinality(Problems),
              Cardinality({id \in In("tasks") : docs[id].status = "completed"}), reflectionDays)

buildQuickStats ==
    [studyMinutesToday |-> MinutesOf({id \in Sessions : Today(docs[id].at)}),
     problemsSolved |-> Cardinality(CompletedToday(Problems)), tasksCompleted |-> tasksDone,
     revisionCompletionPercent |-> revisionCompletionPercent,
     weeklyProductivityScore |-> computeWeeklyProductivityScore]

-----------------------------------------------------------------------------
(* The upcoming schedule.                                                   *)

\* A task stands at its reminder, or at its due date if it has none.
PlannedAt(task) == IF task.reminderAt # Absent THEN task.reminderAt ELSE task.at

Upcoming ==
    LET ToCome(t) == t # Absent /\ t >= now IN
    {Item(1, id, docs[id].at) : id \in {id \in OpenRevisions : ToCome(docs[id].at)}}
        \union {Item(2, id, PlannedAt(docs[id])) : id \in {id \in OpenTasks : ToCome(PlannedAt(docs[id]))}}
        \union {Item(3, id, docs[id].at) : id \in {id \in Sessions : ToCome(docs[id].at)}}

buildUpcomingSchedule == Earliest(Upcoming, UPCOMING_SCHEDULE_LIMIT)

-----------------------------------------------------------------------------
(* Properties.                                                              *)

\* An open revision is on the home screen: among the pending ones, or in the
\* schedule, unless that list is full of revisions, tasks and sessions that come
\* no later; overdue ones do not fall between the two lists.  The lists of the day
\* agree with the schedule: what still reminds today, and a task that is still to
\* come today without a reminder, stands there at its time.
OpenWorkIsShown ==
    Settled =>
    LET scheduled == {<<item.id, item.time>> : item \in Upcoming} IN
    /\ \A id \in In("revisions") : docs[id].status \notin {"completed", "skipped"} =>
        \/ id \in Range(pendingRevisions)
        \/ \E item \in Range(buildUpcomingSchedule) : item.id = id
        \/ /\ Len(pendingRevisions) = PENDING_REVISIONS_LIMIT
           /\ \A other \in Range(pendingRevisions) : docs[other].at <= docs[id].at
        \/ /\ Len(buildUpcomingSchedule) = UPCOMING_SCHEDULE_LIMIT
           /\ \A item \in Range(buildUpcomingSchedule) : item.time <= docs[id].at
    /\ \A item \in Range(upcomingReminders) : <<item.id, item.time>> \in scheduled
    /\ \A id \in Range(todaysTasks) :
          docs[id].reminderAt = Absent /\ docs[id].at >= now => <<id, docs[id].at>> \in scheduled

\* "A 0-100 composite of the week's effort": what was done this week counts in
\* full until the week is over, and nothing else does.
ScoreIsOfTheWeek ==
    LET ThisWeek(t) == t # Absent /\ startOfIsoWeek(t) = startOfIsoWeek(now)
        solved == {id \in In("problems") : docs[id].status = "completed" /\ ThisWeek(docs[id].doneAt)}
        done == {id \in In("tasks") : docs[id].status = "completed" /\ ThisWeek(docs[id].doneAt)}
    IN computeWeeklyProductivityScore =
           Composite(MinutesOf(Sessions), Cardinality(solved), Cardinality(done), reflectionDays)

=============================================================================
