----------------------------- MODULE BatchJobs -----------------------------
(***************************************************************************)
(* The scheduled jobs that walk every user: the weekly reports and the     *)
(* streak recalculation of the analytics service, which a user's failure   *)
(* aborts and BullMQ retries, and the notification sweeps, which go on to  *)
(* the next user.  A job tells a user about itself, the habit reminder     *)
(* about each habit that is still open.                                    *)
(*                                                                         *)
(* The jobs share nothing but what they read, so they run one at a time.    *)
(* The clock counts days.  What a user did is the set of days with some    *)
(* activity; of reflections and habits we only keep whether they go with   *)
(* it.  An analytics document is reduced to the day of its creation.       *)
(* Definitions marked "slip" are wrong versions of the one that follows.   *)
(***************************************************************************)
EXTENDS Integers, Sequences, FiniteSets, FiniteSetsExt, SequencesExt

CONSTANTS
    Users,
    Reflecting,  \* the users who write a reflection on each day they do something
    Habits,      \* the active habits of each user
    Kept,        \* the habits that are completed on each day their user does something;
                 \* the others never are
    Jobs,        \* the jobs the schedule adds
    Attempts,    \* attempts of a job, from defaultJobOptions
    thresholdDays,
    MaxDay,      \* bound: the last day
    MaxRuns,     \* bound: how often a job is added
    MaxFaults    \* bound: awaits that fail and workers that crash

AnalyticsJobs == {"weekly_report", "recalculate_streaks"}
Sweeps ==
    {"habit_reminder", "reflection_reminder", "daily_goal", "inactivity_reminder",
     "monthly_summary"}

\* What a notice is about: a habit, or the job's own matter.
Matter == "matter"
Subjects == Habits \union {Matter}

ASSUME ConstantsAssumption ==
    /\ IsFiniteSet(Users) /\ Users # {} /\ Reflecting \subseteq Users
    /\ Matter \notin Habits /\ Kept \subseteq Habits
    /\ Jobs # {} /\ Jobs \subseteq AnalyticsJobs \union Sweeps
    /\ Attempts \in Nat \ {0} /\ thresholdDays \in Nat
    /\ MaxDay \in Nat \ {0} /\ MaxRuns \in Nat \ {0} /\ MaxFaults \in Nat

NoDay == 0
Days == 1 .. MaxDay

VARIABLES
    day,          \* today
    activity,     \* the days on which a user did something
    analytics,    \* the days the analytics documents were created on: a report and a
                  \* streak snapshot per user
    runs,         \* the jobs added so far
    job,          \* the job that runs, or ran last
    notices,      \* how often it has notified each user, of each subject
    warned,       \* history: what the streak warning sent last was decided on
    faults

vars ==
    <<day, activity, analytics, runs, job, notices, warned, faults>>

\* `readOn' and `batch' are history: the day the user was read on and that of the batch.
Empty ==
    [streak |-> 0, last |-> NoDay, createdAt |-> NoDay, readOn |-> NoDay, batch |-> NoDay]

Stats ==
    [streak : 0 .. MaxDay, last : 0 .. MaxDay, createdAt : 0 .. MaxDay, readOn : 0 .. MaxDay,
     batch : 0 .. MaxDay]

\* `visited' and `crashed' are history: the users the attempt is through with, and
\* whether a crash has ever interrupted the job.
Waiting(j) ==
    [name |-> j, state |-> "waiting", attempt |-> 0, left |-> <<>>, today |-> NoDay, pc |-> "read",
     copy |-> Empty, due |-> {}, visited |-> {}, crashed |-> FALSE]

JobState ==
    [name : Jobs, state : {"waiting", "active", "completed", "failed"}, attempt : 0 .. Attempts,
     left : Seq(Users), today : 0 .. MaxDay, pc : {"read", "find", "write", "notify"},
     copy : Stats, due : SUBSET Subjects, visited : SUBSET Users, crashed : BOOLEAN]

-----------------------------------------------------------------------------
(* What a job finds out about a user.                                       *)

\* For every day, how many days in a row end with it.
RunsUpTo(days) ==
    LET back[d \in -1 .. MaxDay] == IF d \in days THEN 1 + back[d - 1] ELSE 0 IN back

LastOf(days) == Max({NoDay} \union days)

\* Slip: the last run of days, even when it is over.
StreakOfAnyDay(days, today) == RunsUpTo(days)[LastOf(days)]

Streak(days, today) == RunsUpTo(days)[IF today \in days THEN today ELSE today - 1]

\* The streak job's stats; what a report is made of is the Analytics module's matter.
Computed(u) ==
    IF job.name = "weekly_report" THEN Empty
    ELSE [Empty EXCEPT !.streak = Streak(activity[u], day), !.last = LastOf(activity[u]),
                       !.readOn = day, !.batch = job.today]

\* An active streak that did not end on the day the batch started.
AtRisk == job.copy.streak > 0 /\ job.copy.last # job.today

\* Nothing writes users.lastActiveDay.
lastActiveDay(u) == NoDay

Eligible(u) ==
    CASE job.name = "reflection_reminder" -> ~(u \in Reflecting /\ job.today \in activity[u])
      [] job.name = "inactivity_reminder" ->
            lastActiveDay(u) # NoDay /\ day - lastActiveDay(u) >= thresholdDays
      [] OTHER -> TRUE

lastCompletedDay(u, h) == IF h \in Kept THEN LastOf(activity[u]) ELSE NoDay

\* What the user is to be told of: each active habit not completed on the day the
\* batch started, or the job's one matter.
Due(u) ==
    IF job.name = "habit_reminder"
    THEN {h \in Habits : lastCompletedDay(u, h) # job.today}
    ELSE {s \in {Matter} : Eligible(u)}

-----------------------------------------------------------------------------
(* The walk over the users.                                                 *)

At(pc) == job.state = "active" /\ job.left # <<>> /\ job.pc = pc
User == Head(job.left)

Goto(pc, copy) == job' = [job EXCEPT !.pc = pc, !.copy = copy]

Tell(subjects, copy) == job' = [job EXCEPT !.pc = "notify", !.copy = copy, !.due = subjects]

\* Slip: the walk stays with the user.
NextUserStays == job' = [job EXCEPT !.pc = "read", !.copy = Empty, !.due = {}]

NextUser ==
    job' = [job EXCEPT !.left = Tail(@), !.pc = "read", !.copy = Empty, !.due = {},
                       !.visited = @ \union {User}]

Outside == <<day, activity>>

\* The schedule adds a job when its time comes.
Schedule(j) ==
    /\ job.state \in {"completed", "failed"}
    /\ runs < MaxRuns /\ runs' = runs + 1
    /\ job' = Waiting(j)
    /\ notices' = [u \in Users |-> [s \in Subjects |-> 0]]
    /\ UNCHANGED <<Outside, analytics, warned, faults>>

\* An attempt lists the users afresh and walks all of them.
Start ==
    /\ job.state = "waiting"
    /\ job' = [Waiting(job.name) EXCEPT !.state = "active", !.attempt = job.attempt + 1,
                  !.left = SetToSeq(Users), !.today = day, !.crashed = job.crashed]
    /\ UNCHANGED <<Outside, analytics, runs, notices, warned, faults>>

ReadUser ==
    /\ At("read")
    /\ CASE job.name \in AnalyticsJobs -> Goto("find", Computed(User))
         [] job.name \in Sweeps /\ Due(User) # {} -> Tell(Due(User), Empty)
         [] OTHER -> NextUser
    /\ UNCHANGED <<Outside, analytics, runs, notices, warned, faults>>

\* persistStreaks and persistWeeklyReport: an existing document keeps its createdAt.
FindDocument ==
    /\ At("find")
    /\ LET found == analytics[job.name][User] IN
       Goto("write", [job.copy EXCEPT !.createdAt = IF found = NoDay THEN day ELSE found])
    /\ UNCHANGED <<Outside, analytics, runs, notices, warned, faults>>

WriteDocument ==
    /\ At("write")
    /\ analytics' = [analytics EXCEPT ![job.name][User] = job.copy.createdAt]
    /\ IF job.name = "weekly_report" \/ AtRisk THEN Tell({Matter}, job.copy) ELSE NextUser
    /\ UNCHANGED <<Outside, runs, notices, warned, faults>>

\* One subject at a time, the habits in any order.
Notify ==
    /\ At("notify")
    /\ \E s \in job.due :
        /\ notices' = [notices EXCEPT ![User][s] = @ + 1]
        /\ IF job.due = {s} THEN NextUser ELSE Tell(job.due \ {s}, job.copy)
    /\ warned' = IF job.name = "recalculate_streaks" THEN job.copy ELSE warned
    /\ UNCHANGED <<Outside, analytics, runs, faults>>

Finish ==
    /\ job.state = "active" /\ job.left = <<>>
    /\ job' = [job EXCEPT !.state = "completed"]
    /\ UNCHANGED <<Outside, analytics, runs, notices, warned, faults>>

-----------------------------------------------------------------------------
(* Failures.                                                                *)

Fault == faults < MaxFaults /\ faults' = faults + 1

\* Slip: the first failure is final.
AbortForGood == job' = [job EXCEPT !.state = "failed"]

\* BullMQ runs the job again from the start while it has attempts left.
Abort ==
    job' = [job EXCEPT !.state = IF job.attempt < Attempts THEN "waiting" ELSE "failed"]

\* An await other than notify's fails: forEachUser goes on to the next user, the
\* analytics batches throw.
StepFails ==
    /\ \E pc \in {"read", "find", "write"} : At(pc)
    /\ IF job.name \in AnalyticsJobs THEN Abort ELSE NextUser
    /\ Fault
    /\ UNCHANGED <<Outside, analytics, runs, notices, warned>>

\* The users cannot be listed: the attempt is over before the first user.
ListFails ==
    /\ job.state = "waiting"
    /\ job' = [job EXCEPT !.attempt = @ + 1,
                          !.state = IF job.attempt + 1 < Attempts THEN "waiting" ELSE "failed"]
    /\ Fault
    /\ UNCHANGED <<Outside, analytics, runs, notices, warned>>

\* Slip: notify's failure is a failure of the sweep.
NotifyFailsRetried ==
    /\ At("notify")
    /\ IF job.name \in Sweeps THEN Abort ELSE NextUser
    /\ Fault
    /\ UNCHANGED <<Outside, analytics, runs, notices, warned>>

\* notify's failure is caught by all of them, and the user's other habits are skipped.
NotifyFails ==
    /\ At("notify")
    /\ NextUser
    /\ Fault
    /\ UNCHANGED <<Outside, analytics, runs, notices, warned>>

\* A stalled job is taken up again; the attempt it lost does not count.
WorkerCrashes ==
    /\ job.state = "active"
    /\ job' = [job EXCEPT !.state = "waiting", !.attempt = @ - 1, !.crashed = TRUE]
    /\ Fault
    /\ UNCHANGED <<Outside, analytics, runs, notices, warned>>

-----------------------------------------------------------------------------
(* The users and the clock.                                                 *)

Batch == <<analytics, runs, job, notices, warned, faults>>

DoSomething(u) ==
    /\ day \notin activity[u]
    /\ activity' = [activity EXCEPT ![u] = @ \union {day}]
    /\ UNCHANGED <<Batch, day>>

Midnight ==
    /\ day < MaxDay /\ day' = day + 1
    /\ UNCHANGED <<Batch, activity>>

Init ==
    /\ day = 1 /\ activity = [u \in Users |-> {}]
    /\ analytics = [j \in AnalyticsJobs |-> [u \in Users |-> NoDay]]
    /\ \E j \in Jobs : job = Waiting(j)
    /\ runs = 1
    /\ notices = [u \in Users |-> [s \in Subjects |-> 0]]
    /\ warned = Empty /\ faults = 0

Run == Start \/ ReadUser \/ FindDocument \/ WriteDocument \/ Notify \/ Finish

Fail == ListFails \/ StepFails \/ NotifyFails \/ WorkerCrashes

Next ==
    \/ Run \/ Fail
    \/ \E j \in Jobs : Schedule(j)
    \/ \E u \in Users : DoSomething(u)
    \/ Midnight

Spec == Init /\ [][Next]_vars

\* A worker that is up takes up the waiting job and goes on with it.
FairSpec == Spec /\ WF_vars(Run)

-----------------------------------------------------------------------------
(* Properties.                                                              *)

\* Every variable keeps its type, and a job tells a user of a subject once per attempt.
TypeOK ==
    /\ day \in Days /\ activity \in [Users -> SUBSET Days]
    /\ analytics \in [AnalyticsJobs -> [Users -> 0 .. MaxDay]] /\ job \in JobState
    /\ runs \in 1 .. MaxRuns /\ notices \in [Users -> [Subjects -> 0 .. MaxFaults + 1]]
    /\ warned \in Stats /\ faults \in 0 .. MaxFaults

\* "one user's failure never aborts the sweep": a sweep that has completed has looked
\* at every user, whichever of them failed and however often it was started, and the
\* failures never make it tell a user of the same subject again; only a crash of the
\* worker does.
SweepTellsEachOnce ==
    job.name \in Sweeps =>
        /\ job.state = "completed" => job.visited = Users
        /\ ~job.crashed => \A u \in Users, s \in Subjects : notices[u][s] <= 1

\* "At risk: an active daily streak with no activity recorded today", though the batch
\* is retried, runs over midnight and writes the snapshot before it sends the warning:
\* the streak a warning names had ended on the day the user was read or the day before,
\* and for a user who was read on the day of the batch it was the day before.  A user
\* who is read after midnight is warned although the new day has its activity already.
WarnedStreakIsAlive ==
    warned # Empty =>
        /\ warned.streak > 0 /\ warned.last # NoDay
        /\ warned.last \in {warned.readOn - 1, warned.readOn}
        /\ warned.readOn = warned.batch => warned.last = warned.readOn - 1

\* Once the weekly report job was added, every user's report gets written, though
\* a user's failure or a crash throws the whole batch back to its start.
ReportsAreWritten ==
    job.name = "weekly_report" /\ job.state = "waiting"
        ~> \A u \in Users : analytics["weekly_report"][u] # NoDay

=============================================================================
