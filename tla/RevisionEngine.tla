--------------------------- MODULE RevisionEngine ---------------------------
(***************************************************************************)
(* The Smart Revision Engine: the revision documents in Firestore, the     *)
(* delayed reminder jobs in BullMQ, the API requests that edit the former  *)
(* and enqueue the latter, and the worker that runs the reminder jobs and  *)
(* the fifteen-minute sweep.                                               *)
(*                                                                         *)
(* No operation of RevisionService runs in a transaction: every await of a *)
(* handler is a point where the other handlers and the worker go on.  An   *)
(* action is the code between two awaits that reach Firestore or Redis,    *)
(* and `api' and `worker' hold what a handler carries across them.         *)
(*                                                                         *)
(* A definition marked "slip" is a plausible wrong version of the one that *)
(* follows it: the specification does not use it, and PROJECT.json names   *)
(* the property that fails when it takes the other's place.                *)
(***************************************************************************)
EXTENDS Integers, Sequences, FiniteSets

CONSTANTS
    Entities,        \* (userId, entityId) pairs that have a ladder
    Clients,         \* concurrent API requests
    Workers,         \* concurrent job slots of the revision worker
    Ladders,         \* the interval ladders a schedule request may carry
    DefaultLadder,   \* DEFAULT_REVISION_INTERVALS, in ticks
    MaxRungs,        \* MAX_REVISION_INTERVALS
    MaxInterval,     \* MAX_INTERVAL_DAYS, in ticks
    SnoozeDelays,    \* the delays a snooze request may carry
    RescheduleDates, \* the dates a reschedule request may carry
    SweepLimit,      \* the limit of findGloballyDue
    Attempts,        \* attempts of defaultJobOptions
    Ops,             \* the operations the clients of this instance use
    Ratings,         \* the confidences they rate a revision with
    RedisConfigured, \* isRedisConfigured() in the API process
    IdAccepted,      \* external: whether Queue.add takes the id `revision-reminder:<id>':
                     \* {FALSE} for BullMQ 5.79.1, the release that is locked, which refuses
                     \* the colon, {TRUE} for one that does not, both to leave it open
    MaxRevs,         \* bound: documents ever created
    MaxTime,         \* bound: the last tick of the clock
    MaxFaults,       \* bound: failures and crashes
    SnoozeCap        \* bound: snoozeCount saturates here

RevIds == 1 .. MaxRevs
Confidences == {"hard", "medium", "easy"}
OpNames == {"schedule", "complete", "snooze", "skip", "reschedule"}

ASSUME ConstantsAssumption ==
    /\ Entities # {}
    /\ MaxRungs \in Nat \ {0} /\ MaxInterval \in Nat \ {0}
    /\ DefaultLadder \in Seq(Nat) /\ Len(DefaultLadder) \in 1 .. MaxRungs
    /\ Ladders \subseteq Seq(Nat) \ {<<>>}
    /\ SnoozeDelays \subseteq Nat \ {0}
    /\ RescheduleDates \subseteq Nat
    /\ SweepLimit \in Nat \ {0} /\ Attempts \in Nat \ {0}
    /\ Ops \subseteq OpNames /\ Ratings \subseteq Confidences
    /\ RedisConfigured \in BOOLEAN /\ IdAccepted \subseteq BOOLEAN /\ IdAccepted # {}
    /\ MaxRevs \in Nat /\ MaxTime \in Nat /\ MaxFaults \in Nat /\ SnoozeCap \in Nat

VARIABLES
    now,           \* the clock
    revisions,     \* the revisions collection; "absent" until created, and after a delete
    nextId,        \* Firestore's fresh document ids, in the order they are taken
    jobs,          \* the BullMQ job `revision-reminder:<id>' of every revision
    notifications, \* the REVISION_REMINDER records, by what they carry
    api,           \* one API request per client
    worker,        \* one job per worker slot
    faults         \* failures so far

vars == <<now, revisions, nextId, jobs, notifications, api, worker, faults>>

-----------------------------------------------------------------------------
(* Records.                                                                *)

Open == {"scheduled", "due", "snoozed"}
Statuses == Open \cup {"completed", "skipped"}

Revision ==
    [entity : Entities, intervalIndex : 1 .. MaxRungs,
     status : Statuses \cup {"absent"}, dueAt : Nat, snoozeCount : 0 .. SnoozeCap]

NoRevision ==
    [entity |-> CHOOSE e \in Entities : TRUE, intervalIndex |-> 1,
     status |-> "absent", dueAt |-> 0, snoozeCount |-> 0]

Job == [state : {"none", "delayed", "active", "done"}, runAt : Nat, attemptsMade : 0 .. Attempts]

NoJob == [state |-> "none", runAt |-> 0, attemptsMade |-> 0]
FinishedJob == [state |-> "done", runAt |-> 0, attemptsMade |-> 0]

Request ==
    [pc : {"idle", "clear", "create", "enqueue", "complete", "reread",
           "snooze", "skip", "reschedule"},
     id : 0 .. MaxRevs, entity : Entities, index : 0 .. MaxRungs,
     todo : Seq(Nat), outstanding : SUBSET RevIds, dueAt : Nat,
     snoozeCount : 0 .. SnoozeCap, confidence : Confidences]

IdleRequest ==
    [pc |-> "idle", id |-> 0, entity |-> CHOOSE e \in Entities : TRUE, index |-> 0,
     todo |-> <<>>, outstanding |-> {}, dueAt |-> 0, snoozeCount |-> 0,
     confidence |-> "medium"]

WorkerSlot ==
    [pc : {"idle", "read", "mark", "notify"}, job : {"reminder", "sweep"},
     id : 0 .. MaxRevs, dueAt : Nat, batch : SUBSET (RevIds \X Nat)]

IdleSlot == [pc |-> "idle", job |-> "sweep", id |-> 0, dueAt |-> 0, batch |-> {}]

Notification == [id : RevIds, dueAt : Nat, createdAt : Nat]

-----------------------------------------------------------------------------
(* The pure parts.                                                         *)

Least(a, b) == IF a <= b THEN a ELSE b
Most(a, b) == IF a >= b THEN a ELSE b

\* The multipliers 0.5, 1.0 and 1.5, in halves.
Halves(confidence) ==
    CASE confidence = "hard" -> 1 [] confidence = "medium" -> 2 [] confidence = "easy" -> 3

clampInterval(days) == Least(Most(days, 1), MaxInterval)

\* Math.round(base * multiplier): halves round up.
NextInterval(index, confidence) ==
    clampInterval((DefaultLadder[index + 1] * Halves(confidence) + 1) \div 2)

LadderOf(intervals) ==
    [i \in 1 .. Least(Len(intervals), MaxRungs) |-> clampInterval(intervals[i])]

\* Slip: due at this very instant counts as past.
isPastInclusive(date) == date <= now

isPast(date) == date < now

Exists(r) == revisions[r].status # "absent"

\* What scheduleRevisions clears: everything of the entity that is not completed.
Outstanding(e) ==
    {r \in RevIds : /\ Exists(r)
                    /\ revisions[r].entity = e
                    /\ revisions[r].status # "completed"}

\* Slip: the comparison of the query is the wrong way round.
findGloballyUpcoming ==
    {r \in RevIds : revisions[r].status = "scheduled" /\ revisions[r].dueAt > now}

findGloballyDue ==
    {r \in RevIds : revisions[r].status = "scheduled" /\ revisions[r].dueAt <= now}

\* What one query of the sweep may return: the earliest, up to the limit.
SweepBatches ==
    {b \in SUBSET findGloballyDue :
        /\ Cardinality(b) = Least(SweepLimit, Cardinality(findGloballyDue))
        /\ \A r \in b, q \in findGloballyDue \ b : revisions[r].dueAt <= revisions[q].dueAt}

\* enqueueRevisionReminder returns: the job is added, or, without Redis, it is not.
EnqueueReturns == ~RedisConfigured \/ TRUE \in IdAccepted

\* Queue.add throws before it asks Redis anything.
ReminderRefused == RedisConfigured /\ FALSE \in IdAccepted

\* Queue.add with a jobId that BullMQ accepts: an id that is known, in whatever
\* state its job is, is left as it is.
AddJob(js, r, runAt) ==
    IF js[r].state = "none"
    THEN [js EXCEPT ![r] = [state |-> "delayed", runAt |-> runAt, attemptsMade |-> 0]]
    ELSE js

\* delay: max(0, msUntil(dueAt)).  BullMQ promotes the job when its delay is
\* over and the processor reads the clock after a round trip to Firestore, so
\* the earliest tick the job runs in is the first one that is past the date.
enqueueRevisionReminder(r, dueAt) ==
    IF RedisConfigured THEN AddJob(jobs, r, Most(dueAt + 1, now)) ELSE jobs

\* BaseRepository.update of a document that is there.
Update(r, status, dueAt, snoozeCount) ==
    [revisions EXCEPT ![r].status = status, ![r].dueAt = dueAt,
                      ![r].snoozeCount = snoozeCount]

-----------------------------------------------------------------------------
(* The API requests.  A request that finds no revision, or one it does not  *)
(* accept, is answered 404 or 409 and changes nothing.                      *)

Goto(c, request) == api' = [api EXCEPT ![c] = request]

Done(c) == Goto(c, IdleRequest)

\* An idle client sends a request; its handler has read what it needs.
Accept(c, op, request) ==
    /\ api[c].pc = "idle" /\ op \in Ops
    /\ Goto(c, request)
    /\ UNCHANGED <<now, revisions, nextId, jobs, notifications, worker, faults>>

\* scheduleRevisions up to the answer of listForEntity.
BeginSchedule(c, e, intervals) ==
    Accept(c, "schedule",
        [IdleRequest EXCEPT !.pc = IF Outstanding(e) = {} THEN "create" ELSE "clear",
                            !.entity = e, !.todo = LadderOf(intervals),
                            !.outstanding = Outstanding(e)])

\* One of the parallel deletes; the jobs of the deleted revisions stay.
ClearOutstanding(c, r) ==
    /\ api[c].pc = "clear" /\ r \in api[c].outstanding
    /\ revisions' = [revisions EXCEPT ![r] = NoRevision]
    /\ Goto(c, [api[c] EXCEPT !.outstanding = @ \ {r},
                              !.pc = IF api[c].outstanding = {r} THEN "create" ELSE "clear"])
    /\ UNCHANGED <<now, nextId, jobs, notifications, worker, faults>>

\* The next rung of scheduleRevisions's loop, or the one of scheduleNextRung.
CreateRung(c) ==
    /\ api[c].pc = "create" /\ nextId <= MaxRevs
    /\ LET dueAt == now + Head(api[c].todo)
           index == api[c].index + 1
       IN  /\ revisions' = [revisions EXCEPT ![nextId] =
                              [entity |-> api[c].entity, intervalIndex |-> index,
                               status |-> "scheduled", dueAt |-> dueAt, snoozeCount |-> 0]]
           /\ Goto(c, [api[c] EXCEPT !.pc = "enqueue", !.id = nextId, !.index = index,
                                     !.todo = Tail(@), !.dueAt = dueAt])
    /\ nextId' = nextId + 1
    /\ UNCHANGED <<now, jobs, notifications, worker, faults>>

\* The await of enqueueRevisionReminder, in every handler that has one.
EnqueueReminder(c) ==
    /\ api[c].pc = "enqueue" /\ EnqueueReturns
    /\ jobs' = enqueueRevisionReminder(api[c].id, api[c].dueAt)
    /\ IF api[c].todo = <<>> THEN Done(c) ELSE Goto(c, [api[c] EXCEPT !.pc = "create"])
    /\ UNCHANGED <<now, revisions, nextId, notifications, worker, faults>>

\* The add throws: the request is answered 500 after its document was written,
\* and the rungs that were still to come are not created.
EnqueueRejected(c) ==
    /\ api[c].pc = "enqueue" /\ ReminderRefused
    /\ Done(c)
    /\ UNCHANGED <<now, revisions, nextId, jobs, notifications, worker, faults>>

BeginComplete(c, r, confidence) ==
    /\ Exists(r) /\ revisions[r].status # "completed"
    /\ Accept(c, "complete",
          [IdleRequest EXCEPT !.pc = "complete", !.id = r, !.confidence = confidence])

\* The write of complete; the revision may be gone by now.
WriteCompleted(c) ==
    /\ api[c].pc = "complete"
    /\ LET r == api[c].id IN
       IF Exists(r)
       THEN /\ revisions' = Update(r, "completed", revisions[r].dueAt, revisions[r].snoozeCount)
            /\ Goto(c, [api[c] EXCEPT !.pc = "reread"])
       ELSE UNCHANGED revisions /\ Done(c)
    /\ UNCHANGED <<now, nextId, jobs, notifications, worker, faults>>

\* Slip: the 1-based intervalIndex is moved on twice.
RereadCompletedTwiceOn(c) ==
    /\ api[c].pc = "reread"
    /\ LET r == api[c].id
           nextIndex == revisions[r].intervalIndex
       IN  IF Exists(r) /\ nextIndex < Len(DefaultLadder)
           THEN Goto(c, [api[c] EXCEPT !.pc = "create", !.index = nextIndex + 1,
                                       !.entity = revisions[r].entity,
                                       !.todo = <<NextInterval(nextIndex, api[c].confidence)>>])
           ELSE Done(c)
    /\ UNCHANGED <<now, revisions, nextId, jobs, notifications, worker, faults>>

\* BaseRepository.update returns what it reads back, which is what
\* scheduleNextRung goes by; intervalIndex is 1-based, so it is also the
\* 0-based position of the next rung.
RereadCompleted(c) ==
    /\ api[c].pc = "reread"
    /\ LET r == api[c].id
           nextIndex == revisions[r].intervalIndex
       IN  IF Exists(r) /\ nextIndex < Len(DefaultLadder)
           THEN Goto(c, [api[c] EXCEPT !.pc = "create", !.index = nextIndex,
                                       !.entity = revisions[r].entity,
                                       !.todo = <<NextInterval(nextIndex, api[c].confidence)>>])
           ELSE Done(c)
    /\ UNCHANGED <<now, revisions, nextId, jobs, notifications, worker, faults>>

\* snooze reads the count it will write, and fixes the due date, before the write.
BeginSnooze(c, r, hours) ==
    /\ Exists(r)
    /\ Accept(c, "snooze",
          [IdleRequest EXCEPT !.pc = "snooze", !.id = r, !.dueAt = now + hours,
                              !.snoozeCount = Least(revisions[r].snoozeCount + 1, SnoozeCap)])

BeginSkip(c, r) ==
    /\ Exists(r)
    /\ Accept(c, "skip", [IdleRequest EXCEPT !.pc = "skip", !.id = r])

BeginReschedule(c, r, date) ==
    /\ Exists(r)
    /\ Accept(c, "reschedule",
          [IdleRequest EXCEPT !.pc = "reschedule", !.id = r, !.dueAt = date])

\* The writes of snooze, skip and reschedule look at nothing but existence.
WriteSnoozed(c) ==
    /\ api[c].pc = "snooze"
    /\ LET r == api[c].id IN
       IF Exists(r)
       THEN /\ revisions' = Update(r, "snoozed", api[c].dueAt, api[c].snoozeCount)
            /\ Goto(c, [api[c] EXCEPT !.pc = "enqueue"])
       ELSE UNCHANGED revisions /\ Done(c)
    /\ UNCHANGED <<now, nextId, jobs, notifications, worker, faults>>

WriteSkipped(c) ==
    /\ api[c].pc = "skip"
    /\ LET r == api[c].id IN
       revisions' = IF Exists(r)
                    THEN Update(r, "skipped", revisions[r].dueAt, revisions[r].snoozeCount)
                    ELSE revisions
    /\ Done(c)
    /\ UNCHANGED <<now, nextId, jobs, notifications, worker, faults>>

WriteRescheduled(c) ==
    /\ api[c].pc = "reschedule"
    /\ LET r == api[c].id IN
       IF Exists(r)
       THEN /\ revisions' = Update(r, "scheduled", api[c].dueAt, revisions[r].snoozeCount)
            /\ Goto(c, [api[c] EXCEPT !.pc = "enqueue"])
       ELSE UNCHANGED revisions /\ Done(c)
    /\ UNCHANGED <<now, nextId, jobs, notifications, worker, faults>>

\* An await of the handler rejects, or the process dies: the request ends
\* where it is.  A create always ends so once the documents have run out.
RequestFails(c) ==
    /\ api[c].pc # "idle"
    /\ \/ faults < MaxFaults /\ faults' = faults + 1
       \/ api[c].pc = "create" /\ nextId > MaxRevs /\ UNCHANGED faults
    /\ Done(c)
    /\ UNCHANGED <<now, revisions, nextId, jobs, notifications, worker>>

-----------------------------------------------------------------------------
(* The revision worker.                                                     *)

Occupy(w, slot) == worker' = [worker EXCEPT ![w] = slot]

StartReminder(w, r) ==
    /\ worker[w].pc = "idle"
    /\ jobs[r].state = "delayed" /\ jobs[r].runAt <= now
    /\ jobs' = [jobs EXCEPT ![r].state = "active", ![r].runAt = 0]
    /\ Occupy(w, [IdleSlot EXCEPT !.pc = "read", !.job = "reminder", !.id = r])
    /\ UNCHANGED <<now, revisions, nextId, notifications, api, faults>>

\* sweepDueRevisions up to the answer of findGloballyDue.
StartSweep(w) ==
    /\ worker[w].pc = "idle"
    /\ \E b \in SweepBatches : \E first \in b :
        /\ \A r \in b : revisions[first].dueAt <= revisions[r].dueAt
        /\ Occupy(w, [IdleSlot EXCEPT !.pc = "read", !.id = first,
                          !.batch = {<<r, revisions[r].dueAt>> : r \in b \ {first}}])
    /\ UNCHANGED <<now, revisions, nextId, jobs, notifications, api, faults>>

\* fireReminder returned: the job is complete, or the sweep goes on with the
\* revision that was due next when it queried.
Return(w) ==
    LET slot == worker[w] IN
    \/ /\ slot.job = "reminder"
       /\ jobs' = [jobs EXCEPT ![slot.id] = FinishedJob]
       /\ Occupy(w, IdleSlot)
    \/ /\ slot.job = "sweep" /\ slot.batch = {}
       /\ Occupy(w, IdleSlot)
       /\ UNCHANGED jobs
    \/ /\ slot.job = "sweep"
       /\ \E next \in slot.batch :
            /\ \A other \in slot.batch : next[2] <= other[2]
            /\ Occupy(w, [slot EXCEPT !.pc = "read", !.id = next[1], !.dueAt = 0,
                                      !.batch = @ \ {next}])
       /\ UNCHANGED jobs

\* fireReminder threw: BullMQ retries a reminder job until its attempts are
\* used up, a sweep leaves the rest of its batch to a later sweep.
Throw(w) ==
    LET slot == worker[w]
        made == jobs[slot.id].attemptsMade + 1
    IN  /\ Occupy(w, IdleSlot)
        /\ IF slot.job = "reminder"
           THEN jobs' = [jobs EXCEPT ![slot.id] =
                            IF made < Attempts
                            THEN [state |-> "delayed", runAt |-> now, attemptsMade |-> made]
                            ELSE FinishedJob]
           ELSE UNCHANGED jobs

\* Slip: the status is not checked again.
ReadRevisionAnyStatus(w) ==
    /\ worker[w].pc = "read"
    /\ LET r == worker[w].id IN
       IF Exists(r) /\ isPast(revisions[r].dueAt)
       THEN /\ Occupy(w, [worker[w] EXCEPT !.dueAt = revisions[r].dueAt,
                              !.pc = IF revisions[r].status = "due" THEN "notify" ELSE "mark"])
            /\ UNCHANGED jobs
       ELSE Return(w)
    /\ UNCHANGED <<now, revisions, nextId, notifications, api, faults>>

\* fireReminder's findById and the two checks on what it returned.
ReadRevision(w) ==
    /\ worker[w].pc = "read"
    /\ LET r == worker[w].id IN
       IF revisions[r].status \in Open /\ isPast(revisions[r].dueAt)
       THEN /\ Occupy(w, [worker[w] EXCEPT !.dueAt = revisions[r].dueAt,
                              !.pc = IF revisions[r].status = "due" THEN "notify" ELSE "mark"])
            /\ UNCHANGED jobs
       ELSE Return(w)
    /\ UNCHANGED <<now, revisions, nextId, notifications, api, faults>>

\* Slip: the write creates the document when it is missing, as a set would.
MarkDueUpsert(w) ==
    /\ worker[w].pc = "mark"
    /\ LET r == worker[w].id IN
       revisions' = Update(r, "due", revisions[r].dueAt, revisions[r].snoozeCount)
    /\ Occupy(w, [worker[w] EXCEPT !.pc = "notify"])
    /\ UNCHANGED <<now, nextId, jobs, notifications, api, faults>>

\* The update to `due', whatever the revision has become since it was read.
MarkDue(w) ==
    /\ worker[w].pc = "mark" /\ Exists(worker[w].id)
    /\ LET r == worker[w].id IN
       revisions' = Update(r, "due", revisions[r].dueAt, revisions[r].snoozeCount)
    /\ Occupy(w, [worker[w] EXCEPT !.pc = "notify"])
    /\ UNCHANGED <<now, nextId, jobs, notifications, api, faults>>

\* The revision was deleted since.  update returns null, which fireReminder
\* does not look at, or, when the delete came after its get, throws.
MarkMissing(w) ==
    /\ worker[w].pc = "mark" /\ ~Exists(worker[w].id)
    /\ \/ Occupy(w, [worker[w] EXCEPT !.pc = "notify"]) /\ UNCHANGED jobs
       \/ Throw(w)
    /\ UNCHANGED <<now, revisions, nextId, notifications, api, faults>>

\* notify persists a record that carries the due date that was read.
Persist(w) ==
    notifications' = notifications \cup
        {[id |-> worker[w].id, dueAt |-> worker[w].dueAt, createdAt |-> now]}

Notify(w) ==
    /\ worker[w].pc = "notify"
    /\ Persist(w)
    /\ Return(w)
    /\ UNCHANGED <<now, revisions, nextId, api, faults>>

\* An await of fireReminder rejects; the one inside notify that enqueues the
\* push does so after the record is persisted.
ReminderFails(w) ==
    /\ worker[w].pc # "idle" /\ faults < MaxFaults
    /\ faults' = faults + 1
    /\ \/ UNCHANGED notifications
       \/ worker[w].pc = "notify" /\ Persist(w)
    /\ Throw(w)
    /\ UNCHANGED <<now, revisions, nextId, api>>

\* The worker process dies and comes back: a stalled job is run again.
WorkerCrashes(w) ==
    /\ worker[w].pc # "idle" /\ faults < MaxFaults
    /\ faults' = faults + 1
    /\ jobs' = IF worker[w].job = "reminder"
               THEN [jobs EXCEPT ![worker[w].id].state = "delayed", ![worker[w].id].runAt = now]
               ELSE jobs
    /\ Occupy(w, IdleSlot)
    /\ UNCHANGED <<now, revisions, nextId, notifications, api>>

\* removeOnComplete and removeOnFail: a finished job is dropped in the end.
RemoveJob(r) ==
    /\ jobs[r].state = "done"
    /\ jobs' = [jobs EXCEPT ![r] = NoJob]
    /\ UNCHANGED <<now, revisions, nextId, notifications, api, worker, faults>>

Tick ==
    /\ now < MaxTime
    /\ now' = now + 1
    /\ UNCHANGED <<revisions, nextId, jobs, notifications, api, worker, faults>>

-----------------------------------------------------------------------------
Init ==
    /\ now = 0
    /\ revisions = [r \in RevIds |-> NoRevision]
    /\ nextId = 1
    /\ jobs = [r \in RevIds |-> NoJob]
    /\ notifications = {}
    /\ api = [c \in Clients |-> IdleRequest]
    /\ worker = [w \in Workers |-> IdleSlot]
    /\ faults = 0

Receive(c) ==
    \/ \E e \in Entities, intervals \in Ladders : BeginSchedule(c, e, intervals)
    \/ \E r \in RevIds :
        \/ \E confidence \in Ratings : BeginComplete(c, r, confidence)
        \/ \E hours \in SnoozeDelays : BeginSnooze(c, r, hours)
        \/ BeginSkip(c, r)
        \/ \E date \in RescheduleDates : BeginReschedule(c, r, date)

\* The steps a request takes once it was accepted.
Serve(c) ==
    \/ \E r \in RevIds : ClearOutstanding(c, r)
    \/ CreateRung(c)
    \/ EnqueueReminder(c)
    \/ EnqueueRejected(c)
    \/ WriteCompleted(c)
    \/ RereadCompleted(c)
    \/ WriteSnoozed(c)
    \/ WriteSkipped(c)
    \/ WriteRescheduled(c)

\* The steps of a job once a slot has taken it.
Process(w) ==
    \/ ReadRevision(w)
    \/ MarkDue(w)
    \/ MarkMissing(w)
    \/ Notify(w)

Next ==
    \/ \E c \in Clients : Receive(c) \/ Serve(c) \/ RequestFails(c)
    \/ \E w \in Workers :
        \/ \E r \in RevIds : StartReminder(w, r)
        \/ StartSweep(w)
        \/ Process(w)
        \/ ReminderFails(w)
        \/ WorkerCrashes(w)
    \/ \E r \in RevIds : RemoveJob(r)
    \/ Tick

Spec == Init /\ [][Next]_vars

\* Time passes, an accepted request is answered, a job that was taken is run,
\* and the queue, which is first come first served and gets a new sweep every
\* fifteen minutes, gives every job its turn.
Fairness ==
    /\ WF_vars(Tick)
    /\ \A c \in Clients : WF_vars(Serve(c))
    /\ \A w \in Workers : WF_vars(Process(w)) /\ SF_vars(StartSweep(w))
    /\ \A w \in Workers, r \in RevIds : SF_vars(StartReminder(w, r))

FairSpec == Spec /\ Fairness

-----------------------------------------------------------------------------
(* Properties.                                                              *)

\* The documents, jobs and handlers of revisions.types.ts and job.types.ts
\* have the shape the handlers rely on.
TypeOK ==
    /\ now \in 0 .. MaxTime
    /\ revisions \in [RevIds -> Revision]
    /\ nextId \in 1 .. MaxRevs + 1
    /\ jobs \in [RevIds -> Job]
    /\ notifications \subseteq Notification
    /\ api \in [Clients -> Request]
    /\ worker \in [Workers -> WorkerSlot]
    /\ faults \in 0 .. MaxFaults

\* No user is reminded of a revision before the due date the reminder names:
\* fireReminder checks the date, but the notice is stored two awaits later,
\* and the revision may have been snoozed, moved or deleted in between.
ReminderNotEarly ==
    \A n \in notifications : n.dueAt < n.createdAt /\ n.createdAt <= now

\* A revision that a new ladder cleared away is never brought back by a
\* request or a reminder that still holds its id.
DeletedStaysDeleted ==
    [][\A r \in RevIds : r < nextId /\ ~Exists(r) => revisions'[r].status = "absent"]_vars

\* scheduleRevisions clears what is outstanding "so we never duplicate the
\* ladder": an entity has one open revision for each rung.
LadderNotDuplicated ==
    \A r, q \in {i \in RevIds : revisions[i].status \in Open} :
        /\ revisions[r].entity = revisions[q].entity
        /\ revisions[r].intervalIndex = revisions[q].intervalIndex
        => r = q

\* Whatever failed before (an enqueue, a job, the worker), the sweep takes
\* every scheduled revision whose date has passed out of `scheduled'.
OverdueIsSwept ==
    \A r \in RevIds :
        (revisions[r].status = "scheduled" /\ isPast(revisions[r].dueAt))
            ~> ~(revisions[r].status = "scheduled" /\ isPast(revisions[r].dueAt))

\* The engine seen as ReminderPromise: the worker slots hold, between their
\* read and their notice, what was found open and overdue.
PromiseState ==
    [r \in RevIds |-> IF revisions[r].status \in Open THEN "open"
                      ELSE IF Exists(r) THEN "closed"
                      ELSE IF r < nextId THEN "gone" ELSE "fresh"]

PromiseDue == [r \in RevIds |-> revisions[r].dueAt]

Holding(w) == worker[w].pc \in {"mark", "notify"}

InHand == {<<worker[w].id, worker[w].dueAt>> : w \in {v \in Workers : Holding(v)}}

Promise ==
    INSTANCE ReminderPromise WITH
        Ids <- RevIds, now <- now, state <- PromiseState, due <- PromiseDue,
        inHand <- InHand, notices <- notifications

\* Every step of the engine is a step the promise allows, or none of its
\* business: a notice names a date at which its revision was found open and
\* overdue, whoever wrote to the revision since.
KeepsPromise == Promise!Spec

\* A snoozed revision comes back: once its new date has passed it is fired,
\* closed or moved again.
SnoozedIsFired ==
    \A r \in RevIds :
        (revisions[r].status = "snoozed" /\ isPast(revisions[r].dueAt))
            ~> ~(revisions[r].status = "snoozed" /\ isPast(revisions[r].dueAt))

=============================================================================
