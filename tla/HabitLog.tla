------------------------------ MODULE HabitLog ------------------------------
(***************************************************************************)
(* A habit, its log of completions and the streak counters stored beside   *)
(* it, and the daily reminder that looks at them.                          *)
(*                                                                         *)
(* A request reads the habit, works out a patch and writes it: two awaits, *)
(* and other requests in between.  The clock moves in half days, so that   *)
(* the server's local day (dayKey) and the UTC day (the streaks) can       *)
(* differ.  The log is a function from days to counts; 0 is no entry.      *)
(* Definitions marked "slip" are wrong versions of the one that follows.   *)
(***************************************************************************)
EXTENDS Integers, FiniteSets, FiniteSetsExt

CONSTANTS
    Clients,     \* concurrent API requests
    Targets,     \* values of targetPerPeriod
    Zone,        \* half days by which the server's zone is ahead of UTC
    HISTORY_WINDOW_DAYS,
    MaxDay,      \* bound: the last day of the log
    MaxCount,    \* bound: completions of one request
    MaxRequests  \* bound: requests accepted

ASSUME ConstantsAssumption ==
    /\ Targets \subseteq Nat \ {0} /\ Targets # {} /\ Zone \in {-1, 0, 1}
    /\ HISTORY_WINDOW_DAYS \in Nat \ {0}
    /\ MaxDay \in Nat \ {0, 1} /\ MaxCount \in Nat /\ MaxRequests \in Nat \ {0}

Days == 1 .. MaxDay
NoDay == 0
Keep == 0       \* an absent targetPerPeriod

VARIABLES
    now,       \* the clock, in half days
    habit,     \* the habit document
    api,       \* one API request per client
    reminder,  \* what the reminder job last did with the habit, and on which local day
    mixed,     \* history: a write combined values of different reads
    requests   \* requests accepted so far

vars == <<now, habit, api, reminder, mixed, requests>>

utcDay == now \div 2
dayKey == (now + Zone) \div 2

Logs == [Days -> Nat]
NoLog == [d \in Days |-> 0]

Habit ==
    [stored : BOOLEAN, completions : Logs, targetPerPeriod : Targets, currentStreak : 0 .. MaxDay,
     longestStreak : 0 .. MaxDay, totalCompletions : Nat, lastCompletedDay : 0 .. MaxDay,
     isArchived : BOOLEAN]

\* What a request asks for, and the copy of the habit it read on which UTC day.
Request ==
    [op : {"none", "complete", "uncomplete", "update", "remove"}, day : 0 .. MaxDay, count : Nat,
     target : Targets \union {Keep}, archived : {"keep", "yes", "no"}, today : 0 .. MaxDay,
     read : Habit, current : BOOLEAN]

-----------------------------------------------------------------------------
(* The streaks: pure functions of the days on which the target was met.     *)

dayMetTarget(log, target) == {d \in Days : log[d] >= target}

\* The length of the run of days that ends with each day.
RunsUpTo(met) ==
    LET back[d \in 0 .. MaxDay] == IF d \in met THEN 1 + back[d - 1] ELSE 0 IN back

\* Slip: a streak is counted from today only.
computeCurrentStreakToday(log, target, today) == RunsUpTo(dayMetTarget(log, target))[today]

\* Counted backwards from today, or from yesterday while today is not done yet.
computeCurrentStreak(log, target, today) ==
    LET met == dayMetTarget(log, target) IN
    RunsUpTo(met)[IF today \in met THEN today ELSE today - 1]

\* Slip: the run is not reset by a gap.
computeLongestStreakGaps(log, target) == Cardinality(dayMetTarget(log, target))

\* What the pass over the met days, in order, knows after each day: the run that ends at
\* the previous met day, and the longest one.
Pass(met) ==
    LET Step(acc, day) ==
            LET run == IF acc.prev # NoDay /\ day - acc.prev = 1 THEN acc.run + 1 ELSE 1 IN
            [prev |-> day, run |-> run, longest |-> IF run > acc.longest THEN run ELSE acc.longest]
        after[d \in 0 .. MaxDay] ==
            IF d = 0 THEN [prev |-> NoDay, run |-> 0, longest |-> 0]
            ELSE IF d \in met THEN Step(after[d - 1], d) ELSE after[d - 1]
    IN after

computeLongestStreak(log, target) == Pass(dayMetTarget(log, target))[MaxDay].longest

\* Newest first: entry i is the day i - 1 days before today.
buildHistory(log, target, today) ==
    [i \in 1 .. HISTORY_WINDOW_DAYS |->
        today - i + 1 \in Days /\ log[today - i + 1] >= target]

\* What a response shows beside the stored document.
computeStats(h, today) ==
    [currentStreak |-> computeCurrentStreak(h.completions, h.targetPerPeriod, today),
     longestStreak |-> computeLongestStreak(h.completions, h.targetPerPeriod),
     completedToday |-> dayKey \in dayMetTarget(h.completions, h.targetPerPeriod),
     history |-> buildHistory(h.completions, h.targetPerPeriod, today)]

\* The latest day of the log; NoDay is undefined.
latestDay(log) == Max({NoDay} \union {d \in Days : log[d] > 0})

-----------------------------------------------------------------------------
(* The patches.                                                             *)

\* recalculate: everything is worked out from the habit that was read.
recalculate(read, log, delta, today) ==
    [read EXCEPT !.completions = log,
        !.currentStreak = computeCurrentStreak(log, read.targetPerPeriod, today),
        !.longestStreak = Max({@, computeLongestStreak(log, read.targetPerPeriod)}),
        !.totalCompletions = Max({0, @ + delta})]

\* Slip: the day that was logged is taken for the latest one.
completePatchLogged(request) ==
    LET log == [request.read.completions EXCEPT ![request.day] = @ + request.count] IN
    [recalculate(request.read, log, request.count, request.today) EXCEPT !.lastCompletedDay = request.day]

completePatch(request) ==
    LET log == [request.read.completions EXCEPT ![request.day] = @ + request.count] IN
    [recalculate(request.read, log, request.count, request.today) EXCEPT !.lastCompletedDay = latestDay(log)]

\* Slip: more is withdrawn than was logged.
uncompletePatchUnbounded(request) ==
    LET log == [request.read.completions EXCEPT ![request.day] = @ - request.count] IN
    [recalculate(request.read, log, -request.count, request.today)
        EXCEPT !.lastCompletedDay = latestDay(log)]

uncompletePatch(request) ==
    LET removed == Min({request.read.completions[request.day], request.count})
        log == [request.read.completions EXCEPT ![request.day] = @ - removed] IN
    [recalculate(request.read, log, -removed, request.today) EXCEPT !.lastCompletedDay = latestDay(log)]

\* What the write of a log patch stores: the fields of the patch, over the document of now.
\* An undefined lastCompletedDay is dropped from the write (ignoreUndefinedProperties).
LogWritten(old, patch) ==
    [old EXCEPT !.completions = patch.completions, !.currentStreak = patch.currentStreak,
        !.longestStreak = patch.longestStreak, !.totalCompletions = patch.totalCompletions,
        !.lastCompletedDay = IF patch.lastCompletedDay = NoDay THEN @ ELSE patch.lastCompletedDay]

\* The fields of the edit that are given.
Edited(old, request) ==
    [old EXCEPT !.targetPerPeriod = IF request.target = Keep THEN @ ELSE request.target,
        !.isArchived = IF request.archived = "keep" THEN @ ELSE request.archived = "yes"]

\* Slip: a new target leaves the streaks as they are.
EditWrittenKept(old, request) == Edited(old, request)

\* update: a target that differs from the one read re-baselines the streaks of the log read.
EditWritten(old, request) ==
    IF request.target \in {Keep, request.read.targetPerPeriod} THEN Edited(old, request)
    ELSE [Edited(old, request) EXCEPT
             !.currentStreak = computeCurrentStreak(request.read.completions, request.target, request.today),
             !.longestStreak = computeLongestStreak(request.read.completions, request.target)]

-----------------------------------------------------------------------------

NewHabit(target) ==
    [stored |-> TRUE, completions |-> NoLog, targetPerPeriod |-> target, currentStreak |-> 0,
     longestStreak |-> 0, totalCompletions |-> 0, lastCompletedDay |-> NoDay, isArchived |-> FALSE]

NoHabit == [NewHabit(Min(Targets)) EXCEPT !.stored = FALSE]

IdleRequest ==
    [op |-> "none", day |-> NoDay, count |-> 0, target |-> Keep, archived |-> "keep", today |-> 0,
     read |-> NoHabit, current |-> TRUE]

Init ==
    /\ now = 3
    /\ habit = NoHabit
    /\ api = [c \in Clients |-> IdleRequest]
    /\ reminder = [day |-> NoDay, does |-> "nothing"] /\ mixed = FALSE /\ requests = 0

create(c) ==
    /\ api[c].op = "none" /\ ~habit.stored /\ requests = 0
    /\ \E target \in Targets : habit' = NewHabit(target)
    /\ requests' = 1
    /\ UNCHANGED <<now, api, reminder, mixed>>

\* findByIdForUser of a request.  A day may be given; without one it is the local day.
Begin(c) ==
    /\ api[c].op = "none" /\ habit.stored /\ requests < MaxRequests
    /\ \E request \in
            [op : {"complete", "uncomplete"}, day : Days \union {dayKey}, count : 1 .. MaxCount,
             target : {Keep}, archived : {"keep"}, today : {utcDay},
             read : {habit}, current : {TRUE}]
            \union
            [op : {"update"}, day : {NoDay}, count : {0}, target : Targets \union {Keep},
             archived : {"keep", "yes", "no"}, today : {utcDay}, read : {habit}, current : {TRUE}]
            \union
            {[IdleRequest EXCEPT !.op = "remove"]} :
        /\ request.op = "uncomplete" => habit.completions[request.day] > 0
        /\ api' = [api EXCEPT ![c] = request]
    /\ requests' = requests + 1
    /\ UNCHANGED <<now, habit, reminder, mixed>>

\* The write of request c: the copies the others hold are outdated.
Written(c, new, mixes) ==
    /\ habit' = new
    /\ api' = [d \in Clients |->
         IF d = c THEN IdleRequest
         ELSE [api[d] EXCEPT !.current = @ /\ ~(api[d].op # "none" /\ new # habit)]]
    /\ mixed' = (mixed \/ mixes)
    /\ UNCHANGED <<now, reminder, requests>>

complete(c) ==
    /\ api[c].op = "complete" /\ habit.stored
    /\ Written(c, LogWritten(habit, completePatch(api[c])),
               api[c].read.targetPerPeriod # habit.targetPerPeriod)

uncomplete(c) ==
    /\ api[c].op = "uncomplete" /\ habit.stored
    /\ Written(c, LogWritten(habit, uncompletePatch(api[c])),
               api[c].read.targetPerPeriod # habit.targetPerPeriod)

\* A target that is written beside streaks of another log or target.
update(c) ==
    /\ api[c].op = "update" /\ habit.stored
    /\ Written(c, EditWritten(habit, api[c]), api[c].target # Keep /\ ~api[c].current)

\* The document is gone: the write answers not found.
Missed(c) ==
    /\ api[c].op # "none" /\ ~habit.stored
    /\ api' = [api EXCEPT ![c] = IdleRequest]
    /\ UNCHANGED <<now, habit, reminder, mixed, requests>>

remove(c) ==
    /\ api[c].op = "remove" /\ habit.stored
    /\ Written(c, NoHabit, FALSE)

\* One step of the loop of runHabitReminders, for an active habit.
runHabitReminders ==
    /\ habit.stored /\ ~habit.isArchived
    /\ reminder' = [day |-> dayKey,
                    does |-> IF habit.lastCompletedDay = dayKey THEN "skip" ELSE "notify"]
    /\ UNCHANGED <<now, habit, api, mixed, requests>>

HalfDayPasses ==
    /\ now < 2 * MaxDay - 1
    /\ now' = now + 1
    /\ UNCHANGED <<habit, api, reminder, mixed, requests>>

Next ==
    \/ \E c \in Clients :
        create(c) \/ Begin(c) \/ complete(c) \/ uncomplete(c) \/ update(c) \/ remove(c) \/ Missed(c)
    \/ runHabitReminders
    \/ HalfDayPasses

Spec == Init /\ [][Next]_vars

-----------------------------------------------------------------------------
(* Properties.                                                              *)

\* The document keeps its shape; no count and no total is negative.
TypeOK ==
    /\ now \in Nat /\ requests \in 0 .. MaxRequests /\ mixed \in BOOLEAN
    /\ habit \in Habit
    /\ \A c \in Clients : api[c] \in Request
    /\ reminder \in [day : 0 .. MaxDay, does : {"nothing", "skip", "notify"}]

\* The sum of the log.
TotalOf(log) ==
    LET upTo[d \in 0 .. MaxDay] == IF d = 0 THEN 0 ELSE upTo[d - 1] + log[d] IN upTo[MaxDay]

\* The stored counters fit the stored log, even when concurrent requests lose each other's
\* completions and in whatever order days are logged and withdrawn, since every write that
\* sets one of them takes all of them from one read: the lifetime total is the sum of the log
\* (what a patch loses from the one it loses from the other), lastCompletedDay, which the
\* reminder job relies on, is its latest day while anything is logged, and the current streak
\* never exceeds the longest.
CountersFitLog ==
    /\ habit.totalCompletions = TotalOf(habit.completions)
    /\ latestDay(habit.completions) # NoDay => habit.lastCompletedDay = latestDay(habit.completions)
    /\ habit.currentStreak <= habit.longestStreak

\* The longest streak covers every run of the log, through gaps, backfilled days, withdrawals
\* and new targets, until a new target races with another write.
LongestCoversLog ==
    habit.stored /\ ~mixed =>
        \A a, b \in Days :
            a .. b \subseteq dayMetTarget(habit.completions, habit.targetPerPeriod) =>
                habit.longestStreak >= Cardinality(a .. b)

\* The three views of a log that a response shows agree: the current streak is the run of
\* completed entries at the head of the history, not counting an open today, and it is within
\* the longest streak, which is the greatest length of an interval of met days.  Where the
\* server's day is the UTC day, completedToday is the head of the history.
ViewsAgree ==
    habit.stored =>
        LET stats == computeStats(habit, utcDay)
            met == dayMetTarget(habit.completions, habit.targetPerPeriod)
            from == IF stats.history[1] THEN 1 ELSE 2
            head == {n \in 0 .. HISTORY_WINDOW_DAYS + 1 - from :
                       \A i \in from .. from + n - 1 : stats.history[i]} IN
        /\ Min({stats.currentStreak, HISTORY_WINDOW_DAYS + 1 - from}) = Max(head)
        /\ stats.currentStreak <= stats.longestStreak
        /\ dayKey = utcDay => stats.completedToday = stats.history[1]
        /\ stats.longestStreak = Max({Cardinality(r[1] .. r[2]) :
               r \in {i \in (1 .. MaxDay + 1) \X (0 .. MaxDay) : i[1] .. i[2] \subseteq met}})

StreakOn(day) == computeCurrentStreak(habit.completions, habit.targetPerPeriod, day)

\* At midnight a streak that includes the day that ends is kept, and one that was last
\* extended the day before is gone: "an untouched-but-unbroken streak survives until the day
\* fully lapses".
StreakSurvivesMidnight ==
    [][habit.stored /\ utcDay' # utcDay =>
        LET met == dayMetTarget(habit.completions, habit.targetPerPeriod) IN
        /\ utcDay \in met => StreakOn(utcDay') >= StreakOn(utcDay)
        /\ utcDay \notin met /\ utcDay' \notin met => StreakOn(utcDay') = 0]_vars

=============================================================================
