# Kivo backend: a verification development

TLA+ models of the Kivo backend (Express, Firestore, BullMQ, FCM), the TLC
instances that check them, and proofs that TLAPS checks for every value of the
constants. `PROJECT.json` maps every definition to the source lines it stands
for; file names below are relative to `src/src/`.

The backend keeps almost all of its state in Firestore and uses almost no
transactions. A handler reads a document, awaits, decides, awaits again and
writes; two API processes and a worker process do so at the same time. What can
go wrong lies between the awaits, so the models are written at that grain: **an
action is the code between two awaits that reach Firestore, Redis or FCM**, and
what a handler carries from one to the next is part of the state.

## 1. Inventory

| Component | State | Operations | Hard behaviour | What would make it correct (section 3: what of it fails) |
| --- | --- | --- | --- | --- |
| Smart Revision Engine (`modules/revisions`) | one document per rung of a ladder: status, due date, index, snooze count | schedule a ladder, complete (and schedule the next rung), snooze, skip, reschedule, `fireReminder`, `sweepDueRevisions` | every operation is a read, then one or more unguarded writes, then an enqueue; the worker and the sweep run it twice | no early reminder; no rung twice; completed work is kept; deleted stays deleted; everything overdue is announced in the end |
| Job queue (`jobs`) | BullMQ jobs: state, time, attempts | typed `enqueue…` helpers, repeatable schedules, retries, retention | fixed job ids meet old jobs; Redis may be missing in the API; stalled jobs run again | a revision to come has a job; a failed job runs again, a bounded number of times |
| Notification delivery (`notifications`) | notification records (status, read), device tokens, push jobs | `notify`, `deliver` and prune, mark read, mark all read, register, remove | stale preferences and token lists, doubled token documents, a push repeated after a crash, status and read mark written by two parties | one push per device and notification; a status that tells what happened; muted is silent; no push hangs |
| Notification fan-out (`notification.jobs.ts`) | none of its own | daily and monthly jobs that call `notify` for many users | retried halfway, errors of single users swallowed | nobody is left out, nobody is nudged twice by one job |
| DSA roadmap (`modules/dsa`) | topics with denormalised counts, problems | CRUD, complete topic or problem, move a problem, recount | counts recomputed from a stale read; a completed problem schedules a ladder | counts are those of the problems but for known drifts; a completed problem has its ladder; a deleted topic stays deleted |
| Habits (`modules/habits`) | habits with streak counters, completion logs | create, edit, complete, undo, archive, delete, statistics, reminder | recalculation from a stale read; the log goes by local days, the streaks by UTC days | the stored counters fit the log; the streaks are its runs; midnight ends no streak that is alive |
| Sessions (`modules/auth`) | user documents, refresh-token records | register, log in, refresh, log out (one device or all), purge | rotation in two steps; the purge deletes by a list read before | a session is on record until it is rotated, logged out or expired; what expired goes |
| Reflections, tasks, study sessions, notes | documents per user | create, edit, delete, filtered and paged lists, summary | find-then-create without a lock; updates decided on a stale read | one reflection a day; a completed task has its date; pages cover the list |
| Analytics (`modules/analytics`) | weekly reports, streak snapshots | heatmap, streaks, weekly report; two batch jobs over all users | day and week arithmetic; long loops that fail halfway | everything counts once; streaks are runs; scores are capped; reports get written |
| Dashboard (`modules/dashboard`) | none (computed) | `getDashboard` | its own selection of the same day, week and lists | it agrees with the other views; open work is shown |
| Users (`modules/users`) | profile, preferences, notification preferences | edits that merge what they read | two merges lose one edit | an edit touches what it carries |
| Achievements, resources | documents per user | award (no caller), CRUD and uploads | none that is reached | - |
| Document store access (`repositories`) | - | create, update (get, update, get), delete (get, delete), queries, in-memory filter, sort and pages | update and delete are two or three round trips | no write brings a deleted document back |
| Socket, storage, HTTP shell, configuration | - | I/O | none that other components see | - |

Interactions: API handlers and worker share Firestore and nothing else; they
meet in Redis through the `enqueue…` helpers. `fireReminder` calls `notify`,
which stores a record, emits to the socket and enqueues `SEND_PUSH`; the push
worker reads the record, the device tokens and FCM's answer and writes the
status. DSA completion calls the revision engine. The `jobs/scheduler.ts`
repeatables drive the sweep (every fifteen minutes), the fan-out, the streak
recalculation and the clean-up. `DEPLOY.md` describes a deployment in which the
API is serverless and has no Redis, so that its enqueues are skipped while the
worker still sweeps; the constant `RedisConfigured` is that choice. The other
question of the deployment is whether BullMQ takes the id of a reminder job,
`IdAccepted`; section 2 has both.

`PROJECT.json` lists under `hazards` what in this code a test would hardly
reach, each at its line, with the properties that watch it, or a note where none
does. Section 3 lists the comments the code contradicts and no run checks, and
the last part of section 5 what is modelled and nobody promises anything about.

## 2. Modules

| Module | What it is |
| --- | --- |
| `ReminderPromise` | abstract specification: what the engine promises about reminders |
| `RevisionEngine` | the engine, its queue and its worker |
| `MCRevisionEngine` | values for its constants |
| `RevisionEngineProofs` | type correctness, `ReminderNotEarly`, `DeletedStaysDeleted`, and that the engine implements `ReminderPromise` |
| `NotificationDelivery` | notify, the push worker, devices, read marks, preferences |
| `MCNotificationDelivery` | values for its constants |
| `NotificationDeliveryProofs` | all its safety properties and `MutedIsNotPushed` |
| `Roadmap`, `MCRoadmap` | topics, problems, the counts kept beside them, the ladders they schedule |
| `RoadmapProofs` | all its properties |
| `HabitLog`, `MCHabitLog` | one habit, its log and streak counters, two clocks, the reminder |
| `HabitLogProofs` | what the streak recursions compute; all its properties |
| `Sessions`, `MCSessions` | user documents, refresh-token records, the purge |
| `SessionsProofs` | type correctness and `SessionIsOnRecord` |
| `Documents` | the in-memory filter, sort and pagination of user-scoped lists |
| `StudyRecords` | tasks, study sessions, reflections, notes, with the problems, revisions and habits read beside them |
| `StudyRecordsProofs` | type correctness, `CompletedIsDated` |
| `Dashboard`, `Analytics` | what the two services compute; both extend `StudyRecords` |
| `StudyViews`, `MCStudyRecords` | extends both, with the properties that compare them; values for the constants |
| `StudyViewsProofs` | all properties of the lists and the views |
| `BatchJobs`, `MCBatchJobs` | weekly reports, streak recalculation, notification sweeps |
| `BatchJobsProofs` | all its safety properties |

### RevisionEngine

State: `revisions` is the collection, indexed by the order of creation
("absent" before a create and after a delete); `jobs` holds the BullMQ job
`revision-reminder:<id>` of each; `notifications` the records `notify` stored
for reminders, as the revision, the due date it names and the tick it was
stored; `api[c]` the request client `c` has in flight (its `pc` names the next
await); `worker[w]` what slot `w` of the revision worker is doing: a reminder
job or a sweep with the rest of its batch. A revision worker runs several jobs
at a time (`config.bullmq.concurrency`).

| Code | Actions |
| --- | --- |
| `scheduleRevisions` | `BeginSchedule` (listForEntity), `ClearOutstanding` (each of the parallel deletes), `CreateRung`, `EnqueueReminder`, alternating until the ladder is done or `EnqueueRejected` ends it |
| `complete`, `scheduleNextRung` | `BeginComplete`, `WriteCompleted`, `RereadCompleted`, then `CreateRung`, `EnqueueReminder` or `EnqueueRejected` |
| `snooze`, `skip`, `reschedule` | `Begin…`, `Write…`, `EnqueueReminder` or `EnqueueRejected` (not for skip) |
| `fireReminder` | `ReadRevision`, `MarkDue` or `MarkMissing`, `Notify` |
| FIRE_REVISION_REMINDER | `StartReminder`, the above, `Return` or `Throw` |
| SWEEP_DUE_REVISIONS | `StartSweep`, the above for every revision of the batch |
| rejected awaits, crashes | `RequestFails`, `ReminderFails`, `WorkerCrashes` |
| BullMQ | `AddJob` (a known job id is ignored), `RemoveJob` (retention) |

Choices:

- Time is a counter. `isPast` is strict, as in the code. The delay of a job is
  exact and its processor reads the clock after a round trip to Firestore, so
  a job runs at the earliest in the first tick that is past its date.
- An interval is a number of ticks. The default ladder and the limits are
  constants; the ladder of an instance has one or two rungs.
- `update` reads, writes and reads back. Where the handler uses what it reads
  back (complete), that is a step; elsewhere it is part of the write. A write
  to a document that is deleted in between is `MarkMissing` for the worker and
  an answer of 404 for a request.
- A Promise.all that rejects leaves its other deletes in flight; in the model
  they stop with the request. A stalled job is run again without a limit (the
  limit of BullMQ is one by default), which `MaxFaults` bounds.
- `IdAccepted` is whether `Queue.add` takes the id `revision-reminder:<id>`.
  `package-lock.json:3224-3225` locks BullMQ 5.79.1, which is assumed to refuse a
  custom id with one colon (the library is not part of the repository):
  `IdAccepted = {FALSE}`. Then every add throws after the document was written
  (`EnqueueRejected`): the request answers 500, a ladder stops at its first rung, no
  reminder job exists, and only the sweep fires. With `{TRUE}`, a release that takes
  the id, the add goes by what BullMQ knows of it (`AddJob`). `{TRUE, FALSE}` leaves
  it open at every add; the passing runs have that, so that what they check holds
  for either release. The proofs hold for every value.
- The bound on documents ends a create that has no document left as a failed
  request, so that the bound never blocks a handler.

### NotificationDelivery

State: `notes` are the records in the order of creation, with status and read
mark; `devices` the device-token documents that exist; `jobs` the push job of
each record (these jobs have no fixed id); `sender[s]` a call of `notify`,
whoever makes it; `api[c]` a request; `worker[w]` a push job being processed;
`prefs` the notification preferences of the users; `pushes[n][t]` counts how
often FCM handed notification `n` to device `t`, the one variable the code does
not have.

| Code | Actions |
| --- | --- |
| `notify` | `LoadPreferences` (a failed read goes on with the defaults), `Persist` (with the decision that follows it), `enqueueSendPush`, `NotifyFails` |
| `deliver`, `sendToUser`, `sendToTokens` | `StartPush`, `ListTokens`, `Send` or `SendThrows`, `NoteOutcome`, `DeliverFails` |
| `pruneTokens` | `FindInvalid` and `PruneOne`, one for each parallel call; `PruneFails` (swallowed) |
| `register`, `removeToken` | `BeginRegister`, then `CreateDevice` or `UpdateDevice`; `BeginUnregister`, `RemoveDevice` |
| `markRead`, `markAllRead` | `BeginMarkRead` or `BeginMarkAllRead`, `MarkOne` for each record |
| `updateNotificationPreferences` | `BeginEdit` (read and merge), `WritePreferences` (the whole record) |

FCM may accept the push for any of the listed tokens, call any other invalid,
or refuse it for now; `SendThrows` is an outage that may strike after some
devices got the push. A category nobody has set counts as enabled, as in
`categoryEnabled`. The message text is left out.

### Roadmap

Every change of a problem ends in `syncTopicCounts`: a read of the topic, a read
of the problems, a write of the counts. `api[c]` is the request with the await
it is at; `laddered` is what `scheduleRevisions` was called for (its own steps
are in `RevisionEngine`); `drifted`, a history variable, holds the topics whose
last recount missed something and why the code let it. A request that still owes
a topic a recount is `Counting` from the write of the problem to the write of the
counts, the wait for its ladder included; only such a request explains counts
that are not exact.

| Code | Actions |
| --- | --- |
| `createTopic`, `updateTopic`, `completeTopic`, `deleteTopic` | `createTopic`; `ReadTopic`, then the write of the same name, with `ScheduleLadder` after a completion |
| `createProblem`, `updateProblem`, `deleteProblem` | `createProblem`; `BeginUpdateProblem`, `WriteProblem`, `RereadProblem`; `BeginDeleteProblem`, `RemoveProblem` |
| `onProblemCompleted`, `syncTopicCounts` | `ScheduleLadder`, `FindTopic`, `CountProblems`, `WriteCounts` |
| rejected awaits | `RequestFails` |

### HabitLog

One habit, since habits share nothing. A request reads the habit (`Begin`, with
the UTC day of the read), works out a patch and writes it over whatever the
document has become (`complete`, `uncomplete`, `update`, `remove`; `Missed` is
the 404 of a habit deleted in between). The log is a function from days to
counts. `Pass` is the loop of `computeLongestStreak` and `RunsUpTo` the walk of
`computeCurrentStreak`, both as functions of the day. The clock moves in half
days, and `Zone` shifts the server's local day, which a completion is logged
on, against the UTC day the streaks count by. `mixed` remembers that an edit of
the target and a log were computed from different reads. `runHabitReminders`
decides by what is stored.

### Sessions

A token is its user and the second it was signed in: the payload has no `jti`,
so two tokens for one user in one second are one token with one hash, and
`findByHash` may find two records. The steps are those of `AuthService`:
`BeginLogin`, `CreateUser` or `UpdateUser`, `IssueSession`; `BeginRefresh` or
`RefreshRejected`, `FindUser`, `Rotate`, `IssueSession`; `BeginLogout`,
`RevokeOne` for each record found, `LoggedOut`. The purge is `BeginPurge` (the
query), `PurgeOne`, `PurgeFails`. `ended` remembers the tokens that a
refresh or a logout has taken up.

### StudyRecords, Dashboard, Analytics, Documents

`docs` are the documents of one user in the order of creation, all collections
in one shape: `at` is the date a document is about, `doneAt` the date it was
completed, `flag` its one boolean; a field a document lacks is `Absent`, so that
a deleted one is a record too. `create` is one step; `Begin` reads for an
update or a deletion, and `update` or `delete` writes an await later; the patch
of a task's status is made from the status read. A reflection's create looks
for the day first. `Statuses` and `Solving` are what requests may set tasks and
problems to, any values of their enums: a problem is created open or
completed, reopened, completed again with the date it had, and deleted; a revision
is snoozed, moved, skipped, set to due by the worker, completed and deleted, each an
await after it was read, and completing it writes (`WriteCompletion`) and then
creates the next rung (`WriteRung`).

`Documents` is `listForUser` and `paginateForUser`: Firestore is asked for the
user's documents, the rest is done in memory, with a stable sort and offsets.
`Dashboard` and `Analytics` have no state: their operators are the functions of
the two services, evaluated in every reachable state of `StudyRecords`. A list
is the set of its documents' ids with the order the code sorts by: `InOrder`
puts at each place the id of that rank, and where the code sorts tasks, revisions
and sessions together, they are `Item`s, sorted by `ByTime`. A loop over a list
(a sum, the streaks of days and of weeks) is a function of the place reached
(`SumUpTo`, `RunsOf`, `RunBefore`). Fractions are kept whole by a common scale
and rounded where the code rounds.

### BatchJobs

`job` is the job that runs: its state and attempt, the users it still has to
visit, the await it is at and what it read of the current user. The analytics
batches throw on the first failure and BullMQ starts them over; the sweeps go
through `forEachUser`, which logs the failure and goes on. `Due` is what a user is
to be told of: the job's one matter, or, for the habit reminder, each active habit
that was not completed on the batch's day; `notices` counts by user and subject,
and `Notify` tells of one subject at a time, so that a failure may come between
two habits. A habit is either kept (`Kept`: completed on each day its user does
something) or never completed; how a log makes `lastCompletedDay` is `HabitLog`.
`day` may pass at any await while the day of a batch is taken once. `visited`,
`crashed`, `warned` and the days `readOn` and `batch` in a warning are history. The
jobs run one after the other: they share what they read and nothing they write.

| Code | Actions |
| --- | --- |
| scheduler, worker | `Schedule`, `Start` (list the users), `Finish` |
| per user | `ReadUser`, `FindDocument`, `WriteDocument`, `Notify` |
| failures | `ListFails`, `StepFails`, `NotifyFails`, `WorkerCrashes` |
| users and time | `DoSomething`, `Midnight` |

Definitions marked "slip" are wrong on purpose: each is a plausible bug that
takes the place of the definition after it, and the property it is listed with
in `PROJECT.json` ("mutants") then fails.

## 3. Runs

Passing runs. States are distinct states; a run takes at most three minutes.

| Run | Instance | Shows |
| --- | --- | --- |
| `RevisionFaults` | 1 client (schedule, complete, reschedule), 1 worker slot, adds taken or refused, ladder of one rung, 2 documents, 2 ticks, 1 fault; 3.1M states | `TypeOK`, `ReminderNotEarly`, `KeepsPromise` (refinement of `ReminderPromise`), `DeletedStaysDeleted` |
| `RevisionRecovers` | fair, 1 client (schedule, skip, snooze), adds taken or refused, a sweep that takes one revision, 2 documents, 3 ticks, 1 fault anywhere; 87k states | `OverdueIsSwept` |
| `Deliveries` | 2 users, 2 clients, 1 device, 1 notification, 1 fault; 696k states | `TypeOK`, `PushedOnceEach`, `StatusIsTold`, `ReadIsKept` |
| `PushesSettle` | fair, 2 users (one has every category off), 1 client that also edits preferences, 1 fault; 188k states | `MutedIsNotPushed`, `PushSettles` |
| `Roadmaps` | 2 clients with every operation, 2 topics, 2 problems, 2 requests on existing documents, 1 fault; 1.9M states | `TypeOK`, `CountsExplained`, `CompletedHasLadder`, `TopicStaysDeleted` |
| `HabitStreaks` | 2 clients, targets 1 and 2, 3 days in half days, local time ahead of UTC, 4 requests; 338k states | `TypeOK`, `CountersFitLog`, `LongestCoversLog`, `ViewsAgree`, `StreakSurvivesMidnight` |
| `SessionLife` | 2 clients, 2 users, records that live 1 second of 2, 3 records, 1 fault; 1.0M states | `TypeOK`, `SessionIsOnRecord`, `ExpiredIsPurged` |
| `StudyRecords` | 2 clients, 2 documents of any collection, 3 requests, days of 2 ticks and weeks of 2 days, from the end of the first day on; 209k states | `TypeOK`, `CompletedIsDated`, `PagesCoverList`, `OpenWorkIsShown`, `ScoresAreCapped`, `ActivityCountsOnce`, `StreaksAreRuns`, `TodayAgrees` |
| `BatchJobs` | fair, 2 users (one writes reflections), 2 habits (one kept), 4 jobs added twice, 2 attempts, 3 days, 1 fault; 1.7M states | `TypeOK`, `SweepTellsEachOnce`, `WarnedStreakIsAlive`, `ReportsAreWritten` |

Runs that find a violation. Each property is a sentence of a comment in the
repository, quoted under `findings`; the trace is the disagreement.

| Run | Property | What happens |
| --- | --- | --- |
| `LadderDuplicated` | `LadderNotDuplicated` | without Redis in the API, a ladder is stored with all its rungs, and completing the first creates the second again (`revisions.service.ts:302` against the comment at 40-41) |
| `SnoozeNotReplaced` | `SnoozedIsFired` | a BullMQ that takes the id ignores the add of one it knows, and the sweep asks for `scheduled` only |
| `WeeklyScore` | `ScoreIsOfTheWeek` | the weekly score is given the problems of today and the tasks of all time |

Some properties name what they leave out, because the code does not keep it.
`CountsExplained` names the ways the counts of a topic drift (a recount that
another outdated, a problem moved away, a failed request) and says that there
is no other; `CompletedHasLadder`, `StatusIsTold` and `MutedIsNotPushed` speak of
behaviours without a failure. `LongestCoversLog` leaves out the histories that are
`mixed`; `SweepTellsEachOnce` counts nudges of jobs no crash interrupted.
`WarnedStreakIsAlive` asks that nothing was done on the batch's day only of a user
who was read on that day.

Comments the code contradicts, which the models have and no run checks (each is a
note under `hazards`):

- A reminder per revision (`revisions.service.ts:36-38`): with the locked BullMQ the
  id of `queues.ts:93` is refused, the add throws and the ladder stops at its first
  rung; without Redis there is no add.
- `fireReminder` "re-checks the revision is still actionable" and is "idempotent"
  (lines 215-219): the write of `due` (239) does not look at the status again, so a
  revision completed or skipped since the read becomes due; and one that is due
  already passes the checks (229), so a job and a sweep that both hold it announce
  the same date twice.
- The sweep transitions overdue revisions "and fires their reminders" (259-262):
  what fails between the write of `due` and the notice (244) is not taken up by a
  later sweep, and without a job of its own nothing announces it.
- "Clear outstanding (not completed) revisions" (61): the delete (65) goes by the
  status that was listed, so a revision completed in between is deleted.
- "Reflections are unique per user per dayKey" (`reflections.service.ts:26-28`): two
  creates that find none write one each, and an edit moves a reflection onto a day
  that has one.
- "At most one nudge per habit per day" (`notification.jobs.ts:50`): a worker that
  dies after a nudge starts the job again from the first user.
- "No activity recorded today" (`analytics.service.ts:395`): the day is taken once,
  so a user read after midnight, active on the batch's day and on the new one, is
  warned.

### Bounds, and why they are enough

- Two clients, where a run has them: the races of this code are between two
  handlers that hold one document each. A third would repeat one of the two.
- The revision runs have one client and one worker slot, against each other: two
  clients that act on one ladder, and a job beside a sweep, are left to the proofs,
  which hold for any number of both; `OverdueIsSwept` is checked for one of each.
- No passing run has `RedisConfigured` FALSE, only `LadderDuplicated`: a revision
  without a job is there in the others too, after an add that is refused. The proofs
  hold for both values.
- Documents and ticks: two documents let one be cleared or completed while the next
  is created; `LadderDuplicated` has three, a ladder of two and the rung that is
  created again. The ticks put a due date before, at and after the clock.
- One fault lets every await fail and every slot die once, with two attempts
  per job, so that the retry after it has to do the work. Properties that
  speak of faults (`PushedOnceEach`) count them.
- One device and one notification in `Deliveries`: notifications share nothing
  but devices, and the hazard is two documents for one device.
- `SnoozeCap` is 0 in the runs: the count is written and never read.
- `Roadmaps` needs two topics for a problem to move between, two problems for a
  count that is neither none nor all, and two requests for a recount to
  overtake another. Creations are bounded by the documents.
- `HabitStreaks`: three days hold two runs with a gap; counts of 1 and 2 with
  targets of 1 and 2 make a day met, half met and over-met.
- `SessionLife`: three records let a rotation leave a record of the same user
  beside one of another user; two seconds let a record expire and one be newer.
- `StudyRecords`: days of two ticks have a first and a last tick, weeks of two
  days a first and a last day, and the clock passes the end of a day and the end
  of a week. The limits and targets of the code (5 to 20 rows, hours and dozens
  a week) are 1, so that two documents overflow them. Two documents are what the
  comparisons of views need: one that counts and one that does not. The views
  depend on documents and clock alone, so they are looked at while no request is
  under way (`Settled`), the lists when the clock has stopped.
- `BatchJobs`: two users are one before and one after a user that fails; two habits,
  one kept, are one told of and one done, or two told of; three days let a streak
  begin, be at risk and end during a retried batch.
- Clients are symmetric where the cfg says so; those runs check safety only.

`CHECK_DEADLOCK FALSE` is set where the clock, the documents or the requests are
bounded and the clients may stop: an idle system at the bound is a legal end.
The notification runs leave the check on, but it says nothing there: the hours go
round (`HourPasses` is always enabled). That no push hangs is `PushSettles`.

### Fairness

`FairSpec` of `RevisionEngine` assumes that time passes (`WF` on `Tick`), that
an accepted request is served and a job in a slot is processed (`WF` on `Serve`
and `Process`: Node runs the continuation of every await that settles, and one
that rejects or hangs until the process dies is a fault), and that the queue
gives every waiting job and the sweep its turn (`SF` on `StartReminder` and
`StartSweep`: the slots of a worker are taken and freed over and over, BullMQ
serves jobs first come first served and the scheduler adds a sweep every
fifteen minutes). Nothing is assumed of clients, faults or the retention of
finished jobs. `FairSpec` of `NotificationDelivery` is the same for the push
worker only: callers of `notify` and clients may stop at any point. `Sessions`
assumes that the daily clean-up is started and goes on (`WF` on `BeginPurge` and
`PurgeOne`), `BatchJobs` that the worker takes up a waiting job and goes on with
it (`WF` on `Run`); neither assumes anything of users, time or failures, which
`MaxFaults` bounds below the attempts a job has.

## 4. Proofs

The theorems are proved by TLAPS from the named assumption `ConstantsAssumption`
of each module (and `TargetsAssumption` of `Dashboard` and `RangesAssumption` of
`Analytics` for the views): any number of clients, worker slots, documents, days,
ticks and faults, any ladders, targets, limits and preferences. Every safety
property of every passing run is among them. In a proof module `Invariant` is
`Spec => []IInv`, there is a lemma per action or per kind of write, and the
theorems below follow.

| Module | Theorem | Statement |
| --- | --- | --- |
| all but `StudyViewsProofs` | `TypeCorrect` | `Spec => []TypeOK` |
| `RevisionEngineProofs` | `NoEarlyReminder` | `Spec => []ReminderNotEarly` |
| | `PromiseIsKept` | `Spec => KeepsPromise` |
| | `DeletedForGood` | `Spec => DeletedStaysDeleted` |
| `NotificationDeliveryProofs` | `PushedAtMostOncePerFailure` | `Spec => []PushedOnceEach` |
| | `StatusTellsOutcome` | `Spec => []StatusIsTold` |
| | `ReadStaysRead` | `Spec => ReadIsKept` |
| | `MutedUserIsLeftAlone` | `Spec => MutedIsNotPushed` |
| `RoadmapProofs` | `CountsAreExplained` | `Spec => []CountsExplained` |
| | `CompletedGetsLadder` | `Spec => []CompletedHasLadder` |
| | `DeletedTopicIsGone` | `Spec => TopicStaysDeleted` |
| `HabitLogProofs` | `CountersFit` | `Spec => []CountersFitLog` |
| | `LongestStreakCovers` | `Spec => []LongestCoversLog` |
| | `StreakViewsAgree` | `Spec => []ViewsAgree` |
| | `MidnightKeepsStreak` | `Spec => StreakSurvivesMidnight` |
| `SessionsProofs` | `SessionStaysOnRecord` | `Spec => []SessionIsOnRecord` |
| `StudyRecordsProofs` | `CompletedWorkIsDated` | `Spec => []CompletedIsDated` |
| `StudyViewsProofs` | `ScoreIsCapped` | `Spec => []ScoresAreCapped` |
| | `ViewsAgreeOnToday` | `Spec => []TodayAgrees` |
| | `ActivityIsCountedOnce` | `Spec => []ActivityCountsOnce` |
| | `NothingOpenIsHidden` | `Spec => []OpenWorkIsShown` |
| | `StreaksAreStretches` | `Spec => []StreaksAreRuns` |
| | `ListsAreCovered` | `Spec => []PagesCoverList` |
| `BatchJobsProofs` | `SweepTellsEachUserOnce` | `Spec => []SweepTellsEachOnce` |
| | `WarnedStreakLives` | `Spec => []WarnedStreakIsAlive` |

### RevisionEngine

`IInv == TypeOK /\ RequestOK /\ WorkerOK /\ ReminderNotEarly`. `TypeOK` is not
inductive: `intervalIndex` stays within `MaxRungs` only because a request never
plans more rungs than its ladder has left (`RequestOK`: `index + Len(todo) <=
MaxRungs`), and that starts from the cut `scheduleRevisions` makes and from
`nextIndex < Len(DefaultLadder)` in `scheduleNextRung`. `ReminderNotEarly` is
not inductive either: the notice is stored after two awaits, with a date read
before them, so the slot must know that the date it carries was past
(`WorkerOK`), which the clock can only keep. `StepInvariant` puts the lemmas of
the actions together.

`PromiseIsKept` is the refinement. The mapping reads `revisions` as fresh,
open, closed or gone and the worker slots between read and notice as the set
`inHand` of what was found open and overdue. It needs `DocumentsOK` besides
`IInv`: documents from `nextId` on do not exist yet, and no request or slot
holds one. A create takes a fresh document to open, a delete takes one to gone,
every other write keeps one in open or closed, a worker's read is `Find`, its
notice `Announce`, its failure `Drop` or a stutter when another slot still
holds the same pair. `DeletedForGood` follows from the refinement, since the
promise allows no step out of "gone".

### NotificationDelivery

`IInv == TypeOK /\ RecordsOk /\ UnreadStored /\ SendersOk /\ SlotsOk /\
PushesCounted /\ OutcomeKnown /\ StatusIsTold`. `PushedOnceEach` bounds pushes by
the failures; a push adds one, so a job that is ahead of its push must be one
below the bound (`PushesCounted`), and a failure after the push pays for the next
attempt. This counts per record only because a record has one job (`SendersOk`:
the call that enqueues is the one that stored it) and a job one slot (`SlotsOk`).
`StatusIsTold` relates a status to what FCM did several awaits before
(`OutcomeKnown`). `ReadIsKept` follows from one step and `IInv`: ids are given
out once (`RecordsOk`). `MutedIsNotPushed` has a temporal hypothesis, so its
invariant is kept by steps between two muted states: no call holds preferences
that let the category through, none is about to enqueue such a record, and no
such record has a job (`NothingQueued`).

### Roadmap

`IInv == TypeOK /\ RequestsFit /\ RefersOk /\ RecountsFit /\ CountsExplained /\
CompletedIsPlanned /\ CompletedWasPlanned`. The counts are written two awaits
after the problems were read; they are right because every write of a problem
marks the recounts of its topics that are under way as outdated, and those that
are not hold the right numbers (`RecountsFit`). A new document is in no count
because nothing refers to one before it is stored (`RefersOk`).
`CompletedHasLadder` fails to be inductive at a request that found the problem
completed and so schedules nothing: the ladder it relies on was planned then,
and planned stays planned (`CompletedWasPlanned`).

### HabitLog

`IInv == TypeOK /\ ClockOk /\ RequestsOk /\ CountersFitLog /\ ReadsFit /\
ReadsAgree /\ (habit.stored /\ ~mixed => Covered(habit))`. A write takes log, total
and streaks from the copy that was read, so the counters of every copy must fit
its own log (`ReadsFit`), though not that of the document. `LongestCoversLog`
needs more: a new target is decided on a copy, and covers the stored log only if
the copy is still what is stored (`ReadsAgree`), or the history is `mixed`.

Most of the module is about operators. The streaks and the total are recursive
functions of the day. `PassesExist` shows that such a recursion has a solution
and `DayByDay` that what passes from each day to the next holds of all days, both
from the least day that would be missing (`LeastNumber`). With them `RunsAre`
(the value for a day is the number of met days in a row that end there),
`PassKnows` (the loop holds the run of the last met day and the longest one so
far), `LongestIsInterval` (the longest streak is the greatest length of an
interval of met days), `CurrentIsHead` (the current streak is what the history
shows) and `TotalOfChanged` (one count more or less changes the total by as
much) hold for every log, target, day and length of the history.

### Sessions

`IInv == TypeOK /\ SignerKnown /\ ListedWasStored /\ PurgeIsExpired /\ SafeRecord`.
That a valid token has a record is lost when the record is already on somebody's
list. `SafeRecord` asks for a record that no request has listed; a list is made
from records that are stored, so a session that is issued meanwhile is on none
(`ListedWasStored`), a rotation or a logout lists the records of a token it marks
as ended, and the purge lists expired records only (`PurgeIsExpired`). Two tokens
signed in one second are the same token with two records, and one is enough.

### StudyRecords

`IInv == TypeOK /\ RoomLeft /\ RequestsFit /\ DoneBefore /\ RequestsDate /\
CompletedIsDated`. A patch that completes a task or a problem leaves the date out if
the document was completed, or the problem dated, when it was read; it is dated by
the time of the write because it had a date then and no write takes a date away
(`DoneBefore`, `RequestsDate`). `RoomLeft` says that the bound on documents never
cuts off a create that was let in.

### Views

`ViewsInvariant` is `Spec => [](IInv /\ VInv)`. `VInv` adds to `IInv` what the
views rely on: a revision has one of its own five statuses and a due date, and
nothing was created or written in the future (`Plain`); and no request is about to
give a revision the status of something else (`Suits`), though requests and the
worker complete, move, snooze, skip and delete revisions and reopen problems. Without it an
open revision could lack the date that both lists of the home screen compare.
The theorems are then facts about the operators in one state.

- Lists. The rank of an id is a bijection between the set and `1 .. n`
  (`InOrderIs`, `AscendingIs`), so that a list has each element of its set at one
  place and later places hold later dates; the same for items of several
  kinds (`SortedIs`), whose order is by time and, within a time, by the order the code
  joins the lists in.
- Sums. A sum has the recursion its definition gives it (`RecursionExists`,
  `SumRecurs`), and a sum of sizes is the size of the union when the sets are
  disjoint (`TotalCounts`). Minutes are sizes too: of the pairs of a session and one of
  its minutes (`MinutesAreUnits`). So the cells of the heatmap together hold every
  activity of the window (`HeatmapCounts`), and the weeks share the activities out
  without rest or overlap (`WeeksAre`, `WeeksShareOut`).
- Today. Each selection of today's work, by range, by day key or by cell, is the
  same set (`TodaysCell`, `TasksOfToday`, `ProblemsOfToday`, `SessionsOfTheWeek`).
- Scores. `CompositeAtMost` and `ReportAtMost` bound a score by the shares that are
  not zero, through the rounding.
- The home screen. A list cut at its limit is full, of entries that come no later
  than what was cut off (`PrefixIs`, `EarliestIs`); an open revision is in one of the
  two sets the lists are cut from, since one takes what is due by the end of the
  day and the other what comes from now on.
- Streaks. After each place the loop holds the longest stretch that ends at a
  place so far (`RunsRecur`, `LongestRunIs`), and the walk back from the last day holds
  the stretch that ends there (`RunBeforeIs`, `CurrentRunIs`); every stretch is part
  of one that is met like that (`StretchesEnd`). Weeks are the same with their first
  days a week apart (`Multiples`, `WeekStartsAre`).
- Pages. What the pages show one after the other is the list up to the end of the
  last one (`SliceIs`, `JoinRows`, `ShownIs`), the number of pages is the least that
  reaches the end of the list (`PagesNeeded`), for any size of list and of page
  (`PagesTurn`).

### BatchJobs

`IInv == TypeOK /\ Walk /\ NoticesCounted /\ NudgedOnce /\ CopyFits /\
WarnedStreakIsAlive`. A job visits the list it took at its start; the users it is
through with and those still to come share nobody and leave nobody out (`Walk`,
for lists of any length). Whoever is still to come has had one notice less, of each
habit or matter, than the failures allow (`NoticesCounted`), and none if no failure
restarts the job (`NudgedOnce`). The figures of a warning were right on the day the
user was read and are kept while the day passes (`CopyFits`).

### What is not proved

Liveness (`OverdueIsSwept`, `PushSettles`, `ExpiredIsPurged`,
`ReportsAreWritten`) is outside the prover's reach and only model-checked. The
induction theorems of the library take an operator as parameter, which the
installed provers cannot instantiate; where a proof needs induction, over days,
places of a list or pages, it is made from the least number that would fail.

## 5. Not modelled

- The wording of messages, the socket, object storage, HTTP routing and the
  shape checks of the validators: they change no state that another component
  reads. What the validators let through is the input of the models.
- Code without a caller: `enqueueScheduleRevisions`, `awardIfEligible` (so the
  achievements stay empty), `runStreakWarnings`, `paginate`, `increment` and
  `runTransaction` of the base repository.
- `addNotes` of a revision, profile and study-preference edits, resources:
  overwrites of fields nobody else reads.
- The strongest and weakest topic of a weekly report and the texts of its
  recommendations; the greeting and the quote of the dashboard.
- Token signatures, custom claims and the access-token middleware.
- Several jobs of different queues at a time: they share only what they read.

Modelled, without a property, since neither code nor comments promise anything:

- the lost updates of `snoozeCount` and of the notification preferences;
- two completions of one revision;
- a failed multicast that is swallowed and so not retried (`fcm.ts:83`), a
  device that moves to another user between the listing and the push
  (`fcm.ts:94`), a registration whose document is gone
  (`deviceToken.repository.ts:35`), a record whose enqueue fails
  (`notification.service.ts:114`), and a push that arrives inside a quiet window
  that was not open when it was enqueued (line 104);
- a recount that sets the progress of a completed topic back (`dsa.service.ts:217`);
- pages turned while documents come and go, task filters that go by the stored
  and not by the computed status (`tasks.service.ts:48`), and the dashboard's
  parallel reads, which are one read in the model;
- `completedDates` and `users.lastActiveDay`, which the reports and the
  inactivity job read and nothing writes (`analytics.service.ts:134`,
  `notification.jobs.ts:118`): habits count for nothing in the reports, and
  nobody is nudged for inactivity;
- two first logins, whose documents are the same.

## 6. Plan

1. A composition of `RevisionEngine` and `NotificationDelivery` through
   `notify`, with an abstract specification of the path from a due date to a
   push.
2. `isWithinQuietHours` as an interval on the circle of hours, against a
   reference definition.
3. The profile edits of users.
4. Two clients on one ladder, and a job beside a sweep, in a run of their own, with
   the comments of section 3 as properties.
