----------------------- MODULE RevisionEngineProofs -----------------------
(***************************************************************************)
(* What holds of the revision engine for every value of the constants.     *)
(*                                                                         *)
(* TypeOK alone is not inductive: a rung stays within the ladder only      *)
(* because a request never plans more rungs than the ladder has left, and  *)
(* a notice is not early only because the date a worker slot carries was   *)
(* past when it was read.  RequestOK and WorkerOK say so.                  *)
(*                                                                         *)
(* That the engine implements ReminderPromise needs, besides IInv, to know *)
(* which documents have never been created: without DocumentsOK a created  *)
(* document could not be told from one that was deleted before.            *)
(***************************************************************************)
EXTENDS RevisionEngine, TLAPS

\* What a request carries fits the step it is at.
RequestOK ==
    \A c \in Clients :
        /\ api[c].index + Len(api[c].todo) <= MaxRungs
        /\ api[c].pc \in {"clear", "create"} => api[c].todo # <<>>
        /\ api[c].pc \notin {"idle", "clear", "create"} => api[c].id \in RevIds

\* What a worker slot carries fits the step it is at.
WorkerOK ==
    \A w \in Workers :
        /\ worker[w].pc # "idle" => worker[w].id \in RevIds
        /\ worker[w].pc \in {"mark", "notify"} => worker[w].dueAt < now

IInv == TypeOK /\ RequestOK /\ WorkerOK /\ ReminderNotEarly

-----------------------------------------------------------------------------
(* The values the handlers start from and compute.                          *)

LEMMA InitialRecords ==
    /\ NoRevision \in Revision
    /\ NoJob \in Job /\ FinishedJob \in Job
    /\ IdleRequest \in Request
    /\ IdleSlot \in WorkerSlot
<1>1. (CHOOSE e \in Entities : TRUE) \in Entities
  BY ConstantsAssumption
<1>2. NoRevision \in Revision
  BY <1>1, ConstantsAssumption DEF NoRevision, Revision, Statuses, Open
<1>3. NoJob \in Job /\ FinishedJob \in Job
  BY ConstantsAssumption DEF NoJob, FinishedJob, Job
<1>4. IdleRequest \in Request
  BY <1>1, ConstantsAssumption DEF IdleRequest, Request, Confidences
<1>5. IdleSlot \in WorkerSlot
  BY ConstantsAssumption DEF IdleSlot, WorkerSlot
<1>. QED BY <1>2, <1>3, <1>4, <1>5

LEMMA ClampIsNat == ASSUME NEW days \in Int PROVE clampInterval(days) \in Nat
  BY ConstantsAssumption DEF clampInterval, Least, Most

\* A ladder that was asked for is cut to MaxRungs and keeps at least one rung.
LEMMA LadderFits ==
    ASSUME NEW intervals \in Ladders
    PROVE  /\ LadderOf(intervals) \in Seq(Nat)
           /\ LadderOf(intervals) # <<>>
           /\ Len(LadderOf(intervals)) <= MaxRungs
<1>. DEFINE n == Least(Len(intervals), MaxRungs)
<1>1. intervals \in Seq(Nat) /\ intervals # <<>>
  BY ConstantsAssumption
<1>2. n \in Nat \ {0} /\ n <= MaxRungs /\ n <= Len(intervals)
  BY <1>1, ConstantsAssumption DEF Least
<1>. HIDE DEF n
<1>3. ASSUME NEW i \in 1 .. n PROVE clampInterval(intervals[i]) \in Nat
  <2>1. intervals[i] \in Int
    BY <1>1, <1>2
  <2>. QED BY <2>1, ClampIsNat
<1>4. [i \in 1 .. n |-> clampInterval(intervals[i])] \in Seq(Nat)
  BY <1>2, <1>3
<1>5. Len([i \in 1 .. n |-> clampInterval(intervals[i])]) = n
  BY <1>2, <1>3
<1>6. LadderOf(intervals) = [i \in 1 .. n |-> clampInterval(intervals[i])]
  BY DEF LadderOf, n
<1>. QED BY <1>2, <1>4, <1>5, <1>6

\* The interval of the rung after the one that was completed.
LEMMA NextIntervalIsNat ==
    ASSUME NEW index \in Nat, index < Len(DefaultLadder), NEW confidence \in Confidences
    PROVE  NextInterval(index, confidence) \in Nat
<1>1. DefaultLadder[index + 1] \in Nat
  BY ConstantsAssumption
<1>2. Halves(confidence) \in 1 .. 3
  BY DEF Halves, Confidences
<1>3. (DefaultLadder[index + 1] * Halves(confidence) + 1) \in Int
  BY <1>1, <1>2
<1>4. (DefaultLadder[index + 1] * Halves(confidence) + 1) \div 2 \in Int
  BY <1>3
<1>. QED BY <1>4, ClampIsNat DEF NextInterval

-----------------------------------------------------------------------------
(* The invariant holds at the start.                                        *)

LEMMA InitInvariant == Init => IInv
<1>. SUFFICES ASSUME Init PROVE IInv
  OBVIOUS
<1>. USE DEF Init
<1>1. TypeOK
  BY InitialRecords, ConstantsAssumption DEF TypeOK, RevIds
<1>2. RequestOK
  BY ConstantsAssumption DEF RequestOK, IdleRequest
<1>3. WorkerOK
  BY DEF WorkerOK, IdleSlot
<1>4. ReminderNotEarly
  BY DEF ReminderNotEarly
<1>. QED BY <1>1, <1>2, <1>3, <1>4 DEF IInv

-----------------------------------------------------------------------------
(* How a step of one request, or of one slot, shows in api and worker.      *)

\* A request that is answered, or goes on to a record that fits, keeps the
\* requests in shape.
LEMMA GotoKeepsRequests ==
    ASSUME TypeOK, RequestOK, NEW c \in Clients, NEW q \in Request, Goto(c, q),
           q.index + Len(q.todo) <= MaxRungs,
           q.pc \in {"clear", "create"} => q.todo # <<>>,
           q.pc \notin {"idle", "clear", "create"} => q.id \in RevIds
    PROVE  api' \in [Clients -> Request] /\ RequestOK'
<1>1. api' \in [Clients -> Request]
  BY DEF TypeOK, Goto
<1>2. \A d \in Clients : api'[d] = IF d = c THEN q ELSE api[d]
  BY DEF TypeOK, Goto
<1>3. RequestOK'
  BY <1>2 DEF RequestOK
<1>. QED BY <1>1, <1>3

LEMMA DoneKeepsRequests ==
    ASSUME TypeOK, RequestOK, NEW c \in Clients, Done(c)
    PROVE  api' \in [Clients -> Request] /\ RequestOK'
<1>1. /\ IdleRequest.index = 0 /\ IdleRequest.todo = <<>>
      /\ IdleRequest.pc = "idle"
  BY DEF IdleRequest
<1>2. IdleRequest.index + Len(IdleRequest.todo) <= MaxRungs
  BY <1>1, ConstantsAssumption
<1>. QED BY <1>1, <1>2, InitialRecords, GotoKeepsRequests DEF Done

\* The same for a worker slot.
LEMMA OccupyKeepsWorkers ==
    ASSUME TypeOK, WorkerOK, NEW w \in Workers, NEW s \in WorkerSlot, Occupy(w, s),
           s.pc # "idle" => s.id \in RevIds,
           s.pc \in {"mark", "notify"} => s.dueAt < now,
           now' = now
    PROVE  worker' \in [Workers -> WorkerSlot] /\ WorkerOK'
<1>1. worker' \in [Workers -> WorkerSlot]
  BY DEF TypeOK, Occupy
<1>2. \A v \in Workers : worker'[v] = IF v = w THEN s ELSE worker[v]
  BY DEF TypeOK, Occupy
<1>3. WorkerOK'
  BY <1>2 DEF WorkerOK
<1>. QED BY <1>1, <1>3

\* A job that is over, retried or taken keeps the jobs in shape, and so does
\* whatever fireReminder's return or exception leaves behind.
LEMMA ReturnKeepsWorkers ==
    ASSUME TypeOK, WorkerOK, NEW w \in Workers, worker[w].pc # "idle", Return(w), now' = now
    PROVE  /\ jobs' \in [RevIds -> Job]
           /\ worker' \in [Workers -> WorkerSlot]
           /\ WorkerOK'
<1>. DEFINE slot == worker[w]
<1>1. slot \in WorkerSlot /\ slot.id \in RevIds
  BY DEF TypeOK, WorkerOK
<1>2. IdleSlot \in WorkerSlot /\ IdleSlot.pc = "idle" /\ FinishedJob \in Job
  BY InitialRecords DEF IdleSlot
<1>3. CASE slot.job = "reminder" /\ jobs' = [jobs EXCEPT ![slot.id] = FinishedJob]
           /\ Occupy(w, IdleSlot)
  <2>1. jobs' \in [RevIds -> Job]
    BY <1>1, <1>2, <1>3 DEF TypeOK
  <2>. QED BY <1>2, <1>3, <2>1, OccupyKeepsWorkers
<1>4. CASE Occupy(w, IdleSlot) /\ UNCHANGED jobs
  BY <1>2, <1>4, OccupyKeepsWorkers DEF TypeOK
<1>5. CASE /\ \E next \in slot.batch :
                Occupy(w, [slot EXCEPT !.pc = "read", !.id = next[1], !.dueAt = 0,
                                       !.batch = @ \ {next}])
           /\ UNCHANGED jobs
  <2>1. PICK next \in slot.batch :
            Occupy(w, [slot EXCEPT !.pc = "read", !.id = next[1], !.dueAt = 0,
                                   !.batch = @ \ {next}])
    BY <1>5
  <2>. DEFINE s == [slot EXCEPT !.pc = "read", !.id = next[1], !.dueAt = 0,
                                !.batch = @ \ {next}]
  <2>2. next[1] \in RevIds
    BY <1>1 DEF WorkerSlot
  <2>3. s \in WorkerSlot
    <3>1. slot.batch \ {next} \in SUBSET (RevIds \X Nat)
      BY <1>1 DEF WorkerSlot
    <3>2. next[1] \in 0 .. MaxRevs
      BY <2>2, ConstantsAssumption DEF RevIds
    <3>. QED BY <1>1, <3>1, <3>2 DEF WorkerSlot
  <2>4. s.pc = "read" /\ s.id = next[1]
    BY <1>1 DEF WorkerSlot
  <2>. HIDE DEF s
  <2>5. Occupy(w, s)
    BY <2>1 DEF s
  <2>. QED BY <1>5, <2>2, <2>3, <2>4, <2>5, OccupyKeepsWorkers DEF TypeOK
<1>. QED BY <1>3, <1>4, <1>5 DEF Return

LEMMA ThrowKeepsWorkers ==
    ASSUME TypeOK, WorkerOK, NEW w \in Workers, worker[w].pc # "idle", Throw(w), now' = now
    PROVE  /\ jobs' \in [RevIds -> Job]
           /\ worker' \in [Workers -> WorkerSlot]
           /\ WorkerOK'
<1>. DEFINE r == worker[w].id
            made == jobs[r].attemptsMade + 1
            retried == [state |-> "delayed", runAt |-> now, attemptsMade |-> made]
<1>1. r \in RevIds
  BY DEF TypeOK, WorkerOK
<1>2. jobs' \in [RevIds -> Job]
  <2>1. jobs[r] \in Job /\ made \in Nat
    BY <1>1 DEF TypeOK, Job
  <2>2. made < Attempts => retried \in Job
    BY <2>1, ConstantsAssumption DEF TypeOK, Job
  <2>3. \/ jobs' = [jobs EXCEPT ![r] = IF made < Attempts THEN retried ELSE FinishedJob]
        \/ jobs' = jobs
    BY DEF Throw
  <2>. QED BY <1>1, <2>2, <2>3, InitialRecords DEF TypeOK
<1>3. IdleSlot \in WorkerSlot /\ IdleSlot.pc = "idle"
  BY InitialRecords DEF IdleSlot
<1>. QED BY <1>2, <1>3, OccupyKeepsWorkers DEF Throw

-----------------------------------------------------------------------------
(* Every step keeps the invariant.                                          *)

\* What is left to show of a step of a request.
LEMMA RequestStep ==
    ASSUME IInv, UNCHANGED <<now, notifications, worker>>,
           revisions' \in [RevIds -> Revision], nextId' \in 1 .. MaxRevs + 1,
           jobs' \in [RevIds -> Job], faults' \in 0 .. MaxFaults,
           api' \in [Clients -> Request], RequestOK'
    PROVE  IInv'
<1>1. TypeOK'
  BY DEF IInv, TypeOK
<1>2. WorkerOK'
  BY DEF IInv, WorkerOK
<1>3. ReminderNotEarly'
  BY DEF IInv, ReminderNotEarly
<1>. QED BY <1>1, <1>2, <1>3 DEF IInv

\* What is left to show of a step of a worker slot.
LEMMA WorkerStep ==
    ASSUME IInv, UNCHANGED <<now, nextId, api>>,
           revisions' \in [RevIds -> Revision], jobs' \in [RevIds -> Job],
           faults' \in 0 .. MaxFaults, worker' \in [Workers -> WorkerSlot], WorkerOK',
           \A n \in notifications' \ notifications :
               n \in Notification /\ n.dueAt < n.createdAt /\ n.createdAt <= now
    PROVE  IInv'
<1>1. notifications' \subseteq Notification
  BY DEF IInv, TypeOK
<1>2. TypeOK'
  BY <1>1 DEF IInv, TypeOK
<1>3. RequestOK'
  BY DEF IInv, RequestOK
<1>4. ReminderNotEarly'
  BY DEF IInv, ReminderNotEarly
<1>. QED BY <1>2, <1>3, <1>4 DEF IInv

\* A write to a revision that is there keeps the collection in shape.
LEMMA UpdateType ==
    ASSUME TypeOK, NEW r \in RevIds, NEW status \in Statuses, NEW dueAt \in Nat,
           NEW count \in 0 .. SnoozeCap
    PROVE  Update(r, status, dueAt, count) \in [RevIds -> Revision]
<1>1. revisions[r] \in Revision
  BY DEF TypeOK
<1>2. [revisions[r] EXCEPT !.status = status, !.dueAt = dueAt, !.snoozeCount = count]
        \in Revision
  BY <1>1 DEF Revision
<1>3. Update(r, status, dueAt, count) =
        [revisions EXCEPT ![r] = [revisions[r] EXCEPT !.status = status, !.dueAt = dueAt,
                                                      !.snoozeCount = count]]
  BY DEF Update, TypeOK
<1>. QED BY <1>2, <1>3 DEF TypeOK

LEMMA EnqueueType ==
    ASSUME TypeOK, NEW r \in RevIds, NEW dueAt \in Nat
    PROVE  enqueueRevisionReminder(r, dueAt) \in [RevIds -> Job]
<1>. DEFINE j == [state |-> "delayed", runAt |-> Most(dueAt + 1, now), attemptsMade |-> 0]
<1>1. j \in Job
  BY ConstantsAssumption DEF TypeOK, Job, Most
<1>. HIDE DEF j
<1>2. [jobs EXCEPT ![r] = j] \in [RevIds -> Job]
  BY <1>1 DEF TypeOK
<1>. QED BY <1>2 DEF enqueueRevisionReminder, AddJob, TypeOK, j

LEMMA ScheduleInvariant ==
    ASSUME IInv, NEW c \in Clients, NEW e \in Entities, NEW intervals \in Ladders,
           BeginSchedule(c, e, intervals)
    PROVE  IInv'
<1>. DEFINE q == [IdleRequest EXCEPT !.pc = IF Outstanding(e) = {} THEN "create" ELSE "clear",
                                     !.entity = e, !.todo = LadderOf(intervals),
                                     !.outstanding = Outstanding(e)]
<1>1. Outstanding(e) \in SUBSET RevIds
  BY DEF Outstanding
<1>2. q \in Request
  BY <1>1, LadderFits, InitialRecords DEF Request
<1>3. q.index = 0 /\ q.todo = LadderOf(intervals) /\ q.pc \in {"clear", "create"}
  BY InitialRecords DEF IdleRequest
<1>4. Goto(c, q)
  BY DEF BeginSchedule, Accept
<1>. HIDE DEF q
<1>5. Len(q.todo) \in Nat /\ q.index + Len(q.todo) <= MaxRungs
  BY <1>3, LadderFits, ConstantsAssumption
<1>6. api' \in [Clients -> Request] /\ RequestOK'
  BY <1>2, <1>3, <1>4, <1>5, LadderFits, GotoKeepsRequests DEF IInv
<1>. QED BY <1>6, RequestStep DEF BeginSchedule, Accept, IInv, TypeOK

LEMMA ClearInvariant ==
    ASSUME IInv, NEW c \in Clients, NEW r \in RevIds, ClearOutstanding(c, r)
    PROVE  IInv'
<1>. DEFINE q == [api[c] EXCEPT !.outstanding = @ \ {r},
                                !.pc = IF api[c].outstanding = {r} THEN "create" ELSE "clear"]
<1>1. api[c] \in Request
  BY DEF IInv, TypeOK
<1>2. q \in Request /\ q.index = api[c].index /\ q.todo = api[c].todo
      /\ q.pc \in {"clear", "create"}
  BY <1>1 DEF Request
<1>3. Goto(c, q) /\ api[c].pc = "clear"
  BY DEF ClearOutstanding
<1>. HIDE DEF q
<1>4. api' \in [Clients -> Request] /\ RequestOK'
  BY <1>2, <1>3, GotoKeepsRequests DEF IInv, RequestOK
<1>5. revisions' \in [RevIds -> Revision]
  BY InitialRecords DEF ClearOutstanding, IInv, TypeOK
<1>. QED BY <1>4, <1>5, RequestStep DEF ClearOutstanding, IInv, TypeOK

LEMMA CreateInvariant ==
    ASSUME IInv, NEW c \in Clients, CreateRung(c)
    PROVE  IInv'
<1>. DEFINE dueAt == now + Head(api[c].todo)
            index == api[c].index + 1
            rung == [entity |-> api[c].entity, intervalIndex |-> index,
                     status |-> "scheduled", dueAt |-> dueAt, snoozeCount |-> 0]
            q == [api[c] EXCEPT !.pc = "enqueue", !.id = nextId, !.index = index,
                                !.todo = Tail(@), !.dueAt = dueAt]
<1>1. api[c] \in Request /\ now \in Nat /\ nextId \in RevIds
  BY DEF IInv, TypeOK, RevIds, CreateRung
<1>2. /\ api[c].todo \in Seq(Nat) /\ api[c].todo # <<>>
      /\ api[c].index \in Nat /\ api[c].index + Len(api[c].todo) <= MaxRungs
  BY <1>1 DEF Request, IInv, RequestOK, CreateRung
<1>3. /\ Head(api[c].todo) \in Nat /\ Tail(api[c].todo) \in Seq(Nat)
      /\ Len(Tail(api[c].todo)) = Len(api[c].todo) - 1
      /\ Len(api[c].todo) \in Nat \ {0}
  BY <1>2
<1>4. dueAt \in Nat /\ index \in 1 .. MaxRungs
  <2>1. dueAt \in Nat
    BY <1>1, <1>3
  <2>2. \A i, n \in Nat : n # 0 /\ i + n <= MaxRungs => i + 1 \in 1 .. MaxRungs
    BY ConstantsAssumption
  <2>3. index \in 1 .. MaxRungs
    BY <1>2, <1>3, <2>2
  <2>. QED BY <2>1, <2>3
<1>5. rung \in Revision
  BY <1>1, <1>4, ConstantsAssumption DEF Revision, Request, Statuses, Open
<1>. HIDE DEF dueAt, index
<1>6. /\ q \in Request /\ q.pc = "enqueue" /\ q.id = nextId /\ q.index = index
      /\ q.todo = Tail(api[c].todo)
  <2>1. nextId \in 0 .. MaxRevs /\ index \in 0 .. MaxRungs
    BY <1>1, <1>4, ConstantsAssumption DEF RevIds
  <2>. QED BY <1>1, <1>3, <1>4, <2>1 DEF Request
<1>7. Goto(c, q) /\ revisions' = [revisions EXCEPT ![nextId] = rung]
  BY DEF CreateRung, dueAt, index
<1>. HIDE DEF q, rung
<1>8. q.index + Len(q.todo) <= MaxRungs
  <2>1. q.index = api[c].index + 1 /\ Len(q.todo) = Len(api[c].todo) - 1
    BY <1>3, <1>6 DEF index
  <2>2. \A i, n \in Nat : n # 0 /\ i + n <= MaxRungs => (i + 1) + (n - 1) <= MaxRungs
    BY ConstantsAssumption
  <2>. QED BY <1>2, <1>3, <2>1, <2>2
<1>9. api' \in [Clients -> Request] /\ RequestOK'
  BY <1>1, <1>6, <1>7, <1>8, GotoKeepsRequests DEF IInv
<1>10. revisions' \in [RevIds -> Revision]
  BY <1>5, <1>7 DEF IInv, TypeOK
<1>11. nextId' \in 1 .. MaxRevs + 1
  BY <1>1, ConstantsAssumption, SMTT(30) DEF CreateRung, RevIds
<1>. QED BY <1>9, <1>10, <1>11, RequestStep DEF CreateRung, IInv, TypeOK

LEMMA EnqueueInvariant ==
    ASSUME IInv, NEW c \in Clients, EnqueueReminder(c)
    PROVE  IInv'
<1>. DEFINE q == [api[c] EXCEPT !.pc = "create"]
<1>1. api[c] \in Request /\ api[c].id \in RevIds /\ api[c].dueAt \in Nat
  BY DEF IInv, TypeOK, RequestOK, Request, EnqueueReminder
<1>2. q \in Request /\ q.index = api[c].index /\ q.todo = api[c].todo /\ q.pc = "create"
  BY <1>1 DEF Request
<1>3. jobs' \in [RevIds -> Job]
  BY <1>1, EnqueueType DEF IInv, EnqueueReminder
<1>4. CASE api[c].todo = <<>>
  <2>1. Done(c)
    BY <1>4 DEF EnqueueReminder
  <2>2. api' \in [Clients -> Request] /\ RequestOK'
    BY <2>1, DoneKeepsRequests DEF IInv
  <2>. QED BY <1>3, <2>2, RequestStep DEF EnqueueReminder, IInv, TypeOK
<1>5. CASE api[c].todo # <<>>
  <2>1. Goto(c, q)
    BY <1>5 DEF EnqueueReminder
  <2>. HIDE DEF q
  <2>2. api' \in [Clients -> Request] /\ RequestOK'
    BY <1>2, <1>5, <2>1, GotoKeepsRequests DEF IInv, RequestOK
  <2>. QED BY <1>3, <2>2, RequestStep DEF EnqueueReminder, IInv, TypeOK
<1>. QED BY <1>4, <1>5

LEMMA EnqueueRejectedInvariant ==
    ASSUME IInv, NEW c \in Clients, EnqueueRejected(c)
    PROVE  IInv'
<1>1. api' \in [Clients -> Request] /\ RequestOK'
  BY DoneKeepsRequests DEF EnqueueRejected, IInv
<1>. QED BY <1>1, RequestStep DEF EnqueueRejected, IInv, TypeOK

LEMMA CompleteInvariant ==
    ASSUME IInv, NEW c \in Clients, NEW r \in RevIds, NEW confidence \in Ratings,
           BeginComplete(c, r, confidence)
    PROVE  IInv'
<1>. DEFINE q == [IdleRequest EXCEPT !.pc = "complete", !.id = r, !.confidence = confidence]
<1>1. r \in 0 .. MaxRevs /\ confidence \in Confidences
  BY ConstantsAssumption DEF RevIds
<1>2. q \in Request
  BY <1>1, InitialRecords DEF Request
<1>3. q.index = 0 /\ q.todo = <<>> /\ q.pc = "complete" /\ q.id = r
  BY DEF IdleRequest
<1>4. Goto(c, q)
  BY DEF BeginComplete, Accept
<1>. HIDE DEF q
<1>5. api' \in [Clients -> Request] /\ RequestOK'
  BY <1>2, <1>3, <1>4, GotoKeepsRequests, ConstantsAssumption DEF IInv
<1>. QED BY <1>5, RequestStep DEF BeginComplete, Accept, IInv, TypeOK

LEMMA SnoozeInvariant ==
    ASSUME IInv, NEW c \in Clients, NEW r \in RevIds, NEW hours \in SnoozeDelays,
           BeginSnooze(c, r, hours)
    PROVE  IInv'
<1>. DEFINE count == Least(revisions[r].snoozeCount + 1, SnoozeCap)
            q == [IdleRequest EXCEPT !.pc = "snooze", !.id = r, !.dueAt = now + hours,
                                     !.snoozeCount = count]
<1>1. r \in 0 .. MaxRevs /\ now + hours \in Nat
  BY ConstantsAssumption DEF RevIds, IInv, TypeOK
<1>2. count \in 0 .. SnoozeCap
  BY ConstantsAssumption DEF Least, IInv, TypeOK, Revision
<1>3. Goto(c, q)
  BY DEF BeginSnooze, Accept
<1>. HIDE DEF count
<1>4. q \in Request
  BY <1>1, <1>2, InitialRecords DEF Request
<1>5. q.index = 0 /\ q.todo = <<>> /\ q.pc = "snooze" /\ q.id = r
  BY DEF IdleRequest
<1>. HIDE DEF q
<1>6. api' \in [Clients -> Request] /\ RequestOK'
  BY <1>3, <1>4, <1>5, GotoKeepsRequests, ConstantsAssumption DEF IInv
<1>. QED BY <1>6, RequestStep DEF BeginSnooze, Accept, IInv, TypeOK

LEMMA SkipInvariant ==
    ASSUME IInv, NEW c \in Clients, NEW r \in RevIds, BeginSkip(c, r)
    PROVE  IInv'
<1>. DEFINE q == [IdleRequest EXCEPT !.pc = "skip", !.id = r]
<1>1. r \in 0 .. MaxRevs
  BY ConstantsAssumption DEF RevIds
<1>2. q \in Request
  BY <1>1, InitialRecords DEF Request
<1>3. q.index = 0 /\ q.todo = <<>> /\ q.pc = "skip" /\ q.id = r
  BY DEF IdleRequest
<1>4. Goto(c, q)
  BY DEF BeginSkip, Accept
<1>. HIDE DEF q
<1>5. api' \in [Clients -> Request] /\ RequestOK'
  BY <1>2, <1>3, <1>4, GotoKeepsRequests, ConstantsAssumption DEF IInv
<1>. QED BY <1>5, RequestStep DEF BeginSkip, Accept, IInv, TypeOK

LEMMA RescheduleInvariant ==
    ASSUME IInv, NEW c \in Clients, NEW r \in RevIds, NEW date \in RescheduleDates,
           BeginReschedule(c, r, date)
    PROVE  IInv'
<1>. DEFINE q == [IdleRequest EXCEPT !.pc = "reschedule", !.id = r, !.dueAt = date]
<1>1. r \in 0 .. MaxRevs /\ date \in Nat
  BY ConstantsAssumption DEF RevIds
<1>2. q \in Request
  BY <1>1, InitialRecords DEF Request
<1>3. q.index = 0 /\ q.todo = <<>> /\ q.pc = "reschedule" /\ q.id = r
  BY DEF IdleRequest
<1>4. Goto(c, q)
  BY DEF BeginReschedule, Accept
<1>. HIDE DEF q
<1>5. api' \in [Clients -> Request] /\ RequestOK'
  BY <1>2, <1>3, <1>4, GotoKeepsRequests, ConstantsAssumption DEF IInv
<1>. QED BY <1>5, RequestStep DEF BeginReschedule, Accept, IInv, TypeOK

\* The four writes: to a revision that is there, or an answer that it is not.
LEMMA WriteInvariant ==
    ASSUME IInv, NEW c \in Clients,
           WriteCompleted(c) \/ WriteSnoozed(c) \/ WriteSkipped(c) \/ WriteRescheduled(c)
    PROVE  IInv'
<1>. DEFINE r == api[c].id
            After(pc) == [api[c] EXCEPT !.pc = pc]
<1>1. api[c] \in Request /\ r \in RevIds
  BY DEF IInv, TypeOK, RequestOK, WriteCompleted, WriteSnoozed, WriteSkipped, WriteRescheduled
<1>2. revisions[r] \in Revision
  BY <1>1 DEF IInv, TypeOK
<1>3. /\ revisions[r].dueAt \in Nat /\ revisions[r].snoozeCount \in 0 .. SnoozeCap
      /\ api[c].dueAt \in Nat /\ api[c].snoozeCount \in 0 .. SnoozeCap
  BY <1>1, <1>2 DEF Revision, Request
<1>4. revisions' \in [RevIds -> Revision]
  <2>1. revisions \in [RevIds -> Revision]
    BY DEF IInv, TypeOK
  <2>2. CASE WriteCompleted(c)
    BY <1>1, <1>3, <2>1, <2>2, UpdateType DEF WriteCompleted, IInv, Statuses
  <2>3. CASE WriteSnoozed(c)
    BY <1>1, <1>3, <2>1, <2>3, UpdateType DEF WriteSnoozed, IInv, Statuses, Open
  <2>4. CASE WriteSkipped(c)
    BY <1>1, <1>3, <2>1, <2>4, UpdateType DEF WriteSkipped, IInv, Statuses
  <2>5. CASE WriteRescheduled(c)
    BY <1>1, <1>3, <2>1, <2>5, UpdateType DEF WriteRescheduled, IInv, Statuses, Open
  <2>. QED BY <2>2, <2>3, <2>4, <2>5
<1>5. api' \in [Clients -> Request] /\ RequestOK'
  <2>1. CASE Done(c)
    BY <2>1, DoneKeepsRequests DEF IInv
  <2>2. ASSUME NEW pc \in {"reread", "enqueue"}, Goto(c, After(pc))
        PROVE  api' \in [Clients -> Request] /\ RequestOK'
    <3>. DEFINE q == After(pc)
    <3>1. /\ q \in Request /\ q.index = api[c].index /\ q.todo = api[c].todo
          /\ q.pc = pc /\ q.id = r
      BY <1>1 DEF Request
    <3>2. Goto(c, q)
      BY <2>2
    <3>. HIDE DEF q
    <3>. QED BY <1>1, <3>1, <3>2, GotoKeepsRequests DEF IInv, RequestOK
  <2>3. Done(c) \/ \E pc \in {"reread", "enqueue"} : Goto(c, After(pc))
    BY DEF WriteCompleted, WriteSnoozed, WriteSkipped, WriteRescheduled
  <2>. QED BY <2>1, <2>2, <2>3
<1>6. UNCHANGED <<now, nextId, jobs, notifications, worker, faults>>
  BY DEF WriteCompleted, WriteSnoozed, WriteSkipped, WriteRescheduled
<1>. QED BY <1>4, <1>5, <1>6, RequestStep DEF IInv, TypeOK

LEMMA RereadInvariant ==
    ASSUME IInv, NEW c \in Clients, RereadCompleted(c)
    PROVE  IInv'
<1>. DEFINE r == api[c].id
            nextIndex == revisions[r].intervalIndex
            interval == NextInterval(nextIndex, api[c].confidence)
            q == [api[c] EXCEPT !.pc = "create", !.index = nextIndex,
                                !.entity = revisions[r].entity, !.todo = <<interval>>]
<1>1. api[c] \in Request /\ r \in RevIds
  BY DEF IInv, TypeOK, RequestOK, RereadCompleted
<1>2. /\ nextIndex \in 1 .. MaxRungs /\ revisions[r].entity \in Entities
      /\ api[c].confidence \in Confidences
  BY <1>1 DEF IInv, TypeOK, Revision, Request
<1>3. api' \in [Clients -> Request] /\ RequestOK'
  <2>1. CASE Done(c)
    BY <2>1, DoneKeepsRequests DEF IInv
  <2>2. CASE nextIndex < Len(DefaultLadder) /\ Goto(c, q)
    <3>1. interval \in Nat
      BY <1>2, <2>2, NextIntervalIsNat
    <3>. HIDE DEF interval
    <3>2. <<interval>> \in Seq(Nat) /\ Len(<<interval>>) = 1 /\ <<interval>> # <<>>
      BY <3>1
    <3>. HIDE DEF nextIndex
    <3>3. nextIndex \in 0 .. MaxRungs /\ nextIndex + 1 <= MaxRungs
      <4>1. \A i, l \in Nat : i < l /\ l <= MaxRungs => i + 1 <= MaxRungs
        BY ConstantsAssumption
      <4>2. nextIndex \in Nat /\ nextIndex <= MaxRungs
        BY <1>2, ConstantsAssumption
      <4>3. Len(DefaultLadder) \in Nat /\ Len(DefaultLadder) <= MaxRungs
        BY ConstantsAssumption
      <4>. QED BY <2>2, <4>1, <4>2, <4>3, ConstantsAssumption
    <3>4. q \in Request /\ q.index = nextIndex /\ q.todo = <<interval>> /\ q.pc = "create"
      BY <1>1, <1>2, <3>2, <3>3 DEF Request
    <3>. HIDE DEF q
    <3>. QED BY <2>2, <3>2, <3>3, <3>4, GotoKeepsRequests DEF IInv
  <2>. QED BY <2>1, <2>2 DEF RereadCompleted
<1>. QED BY <1>3, RequestStep DEF RereadCompleted, IInv, TypeOK

LEMMA RequestFailsInvariant ==
    ASSUME IInv, NEW c \in Clients, RequestFails(c)
    PROVE  IInv'
<1>1. api' \in [Clients -> Request] /\ RequestOK'
  BY DoneKeepsRequests DEF RequestFails, IInv
<1>2. faults' \in 0 .. MaxFaults
  BY ConstantsAssumption DEF RequestFails, IInv, TypeOK
<1>. QED BY <1>1, <1>2, RequestStep DEF RequestFails, IInv, TypeOK

LEMMA StartReminderInvariant ==
    ASSUME IInv, NEW w \in Workers, NEW r \in RevIds, StartReminder(w, r)
    PROVE  IInv'
<1>. DEFINE s == [IdleSlot EXCEPT !.pc = "read", !.job = "reminder", !.id = r]
<1>1. r \in 0 .. MaxRevs
  BY ConstantsAssumption DEF RevIds
<1>2. s \in WorkerSlot /\ s.id = r /\ s.pc = "read"
  BY <1>1, InitialRecords DEF WorkerSlot, IdleSlot
<1>3. Occupy(w, s) /\ now' = now
  BY DEF StartReminder
<1>. HIDE DEF s
<1>4. worker' \in [Workers -> WorkerSlot] /\ WorkerOK'
  BY <1>2, <1>3, OccupyKeepsWorkers DEF IInv
<1>5. jobs' \in [RevIds -> Job]
  <2>1. [jobs[r] EXCEPT !.state = "active", !.runAt = 0] \in Job
    BY DEF IInv, TypeOK, Job
  <2>2. jobs' = [jobs EXCEPT ![r] = [jobs[r] EXCEPT !.state = "active", !.runAt = 0]]
    BY DEF StartReminder, IInv, TypeOK
  <2>. QED BY <2>1, <2>2 DEF IInv, TypeOK
<1>. QED BY <1>4, <1>5, WorkerStep DEF StartReminder, IInv, TypeOK

LEMMA StartSweepInvariant ==
    ASSUME IInv, NEW w \in Workers, StartSweep(w)
    PROVE  IInv'
<1>1. PICK b \in SweepBatches : \E first \in b :
        Occupy(w, [IdleSlot EXCEPT !.pc = "read", !.id = first,
                       !.batch = {<<r, revisions[r].dueAt>> : r \in b \ {first}}])
  BY DEF StartSweep
<1>2. PICK first \in b :
        Occupy(w, [IdleSlot EXCEPT !.pc = "read", !.id = first,
                       !.batch = {<<r, revisions[r].dueAt>> : r \in b \ {first}}])
  BY <1>1
<1>. DEFINE rest == {<<r, revisions[r].dueAt>> : r \in b \ {first}}
            s == [IdleSlot EXCEPT !.pc = "read", !.id = first, !.batch = rest]
<1>3. b \subseteq RevIds
  BY <1>1 DEF SweepBatches, findGloballyDue
<1>4. \A r \in RevIds : revisions[r].dueAt \in Nat
  BY DEF IInv, TypeOK, Revision
<1>5. rest \in SUBSET (RevIds \X Nat)
  BY <1>3, <1>4
<1>6. first \in RevIds /\ first \in 0 .. MaxRevs
  BY <1>3, ConstantsAssumption DEF RevIds
<1>7. Occupy(w, s)
  BY <1>2
<1>. HIDE DEF rest
<1>8. s \in WorkerSlot /\ s.id = first /\ s.pc = "read"
  BY <1>5, <1>6, InitialRecords DEF WorkerSlot, IdleSlot
<1>. HIDE DEF s
<1>9. worker' \in [Workers -> WorkerSlot] /\ WorkerOK'
  BY <1>6, <1>7, <1>8, OccupyKeepsWorkers DEF IInv, StartSweep
<1>. QED BY <1>9, WorkerStep DEF StartSweep, IInv, TypeOK

\* The read that finds a revision overdue is what later makes its notice late
\* enough.
LEMMA ReadInvariant ==
    ASSUME IInv, NEW w \in Workers, ReadRevision(w)
    PROVE  IInv'
<1>. DEFINE r == worker[w].id
            Found(pc) == [worker[w] EXCEPT !.dueAt = revisions[r].dueAt, !.pc = pc]
<1>1. worker[w] \in WorkerSlot /\ r \in RevIds /\ worker[w].pc = "read"
  BY DEF IInv, TypeOK, WorkerOK, ReadRevision
<1>2. revisions[r].dueAt \in Nat
  BY <1>1 DEF IInv, TypeOK, Revision
<1>3. UNCHANGED <<now, revisions, nextId, notifications, api, faults>>
  BY DEF ReadRevision
<1>4. CASE Return(w)
  <2>1. /\ jobs' \in [RevIds -> Job]
        /\ worker' \in [Workers -> WorkerSlot] /\ WorkerOK'
    BY <1>1, <1>3, <1>4, ReturnKeepsWorkers DEF IInv
  <2>. QED BY <1>3, <2>1, WorkerStep DEF IInv, TypeOK
<1>5. ASSUME NEW pc \in {"mark", "notify"}, isPast(revisions[r].dueAt),
             Occupy(w, Found(pc)), UNCHANGED jobs
      PROVE  IInv'
  <2>. DEFINE s == Found(pc)
  <2>1. s \in WorkerSlot /\ s.id = r /\ s.dueAt = revisions[r].dueAt
    BY <1>1, <1>2 DEF WorkerSlot
  <2>2. Occupy(w, s) /\ s.dueAt < now
    BY <1>5, <2>1 DEF isPast
  <2>. HIDE DEF s
  <2>3. worker' \in [Workers -> WorkerSlot] /\ WorkerOK'
    BY <1>1, <1>3, <2>1, <2>2, OccupyKeepsWorkers DEF IInv
  <2>. QED BY <1>3, <1>5, <2>3, WorkerStep DEF IInv, TypeOK
<1>6. \/ Return(w)
      \/ /\ isPast(revisions[r].dueAt) /\ UNCHANGED jobs
         /\ \E pc \in {"mark", "notify"} : Occupy(w, Found(pc))
  BY DEF ReadRevision
<1>. QED BY <1>4, <1>5, <1>6

LEMMA MarkInvariant ==
    ASSUME IInv, NEW w \in Workers, MarkDue(w) \/ MarkMissing(w)
    PROVE  IInv'
<1>. DEFINE r == worker[w].id
            s == [worker[w] EXCEPT !.pc = "notify"]
<1>1. /\ worker[w] \in WorkerSlot /\ r \in RevIds
      /\ worker[w].pc = "mark" /\ worker[w].dueAt < now
  BY DEF IInv, TypeOK, WorkerOK, MarkDue, MarkMissing
<1>2. UNCHANGED <<now, nextId, notifications, api, faults>>
  BY DEF MarkDue, MarkMissing
<1>3. revisions' \in [RevIds -> Revision]
  <2>1. /\ revisions[r].dueAt \in Nat /\ revisions[r].snoozeCount \in 0 .. SnoozeCap
    BY <1>1 DEF IInv, TypeOK, Revision
  <2>2. Update(r, "due", revisions[r].dueAt, revisions[r].snoozeCount)
          \in [RevIds -> Revision]
    BY <1>1, <2>1, UpdateType DEF IInv, Statuses, Open
  <2>. QED BY <2>2 DEF MarkDue, MarkMissing, IInv, TypeOK
<1>4. CASE Throw(w)
  <2>1. /\ jobs' \in [RevIds -> Job]
        /\ worker' \in [Workers -> WorkerSlot] /\ WorkerOK'
    BY <1>1, <1>2, <1>4, ThrowKeepsWorkers DEF IInv
  <2>. QED BY <1>2, <1>3, <2>1, WorkerStep DEF IInv, TypeOK
<1>5. CASE Occupy(w, s) /\ UNCHANGED jobs
  <2>1. s \in WorkerSlot /\ s.id = r /\ s.dueAt = worker[w].dueAt
    BY <1>1 DEF WorkerSlot
  <2>. HIDE DEF s
  <2>2. worker' \in [Workers -> WorkerSlot] /\ WorkerOK'
    BY <1>1, <1>2, <1>5, <2>1, OccupyKeepsWorkers DEF IInv
  <2>. QED BY <1>2, <1>3, <1>5, <2>2, WorkerStep DEF IInv, TypeOK
<1>. QED BY <1>4, <1>5 DEF MarkDue, MarkMissing

\* What notify stores names a date that was past when it was read.
LEMMA PersistIsNotEarly ==
    ASSUME IInv, NEW w \in Workers, worker[w].pc = "notify", Persist(w)
    PROVE  \A n \in notifications' \ notifications :
               n \in Notification /\ n.dueAt < n.createdAt /\ n.createdAt <= now
<1>1. /\ worker[w].id \in RevIds /\ worker[w].dueAt \in Nat /\ worker[w].dueAt < now
      /\ now \in Nat
  BY DEF IInv, TypeOK, WorkerOK, WorkerSlot
<1>. QED BY <1>1 DEF Persist, Notification

LEMMA NotifyInvariant ==
    ASSUME IInv, NEW w \in Workers, Notify(w)
    PROVE  IInv'
<1>1. /\ jobs' \in [RevIds -> Job]
      /\ worker' \in [Workers -> WorkerSlot] /\ WorkerOK'
  BY ReturnKeepsWorkers DEF Notify, IInv
<1>2. \A n \in notifications' \ notifications :
          n \in Notification /\ n.dueAt < n.createdAt /\ n.createdAt <= now
  BY PersistIsNotEarly DEF Notify
<1>. QED BY <1>1, <1>2, WorkerStep DEF Notify, IInv, TypeOK

LEMMA ReminderFailsInvariant ==
    ASSUME IInv, NEW w \in Workers, ReminderFails(w)
    PROVE  IInv'
<1>1. /\ jobs' \in [RevIds -> Job]
      /\ worker' \in [Workers -> WorkerSlot] /\ WorkerOK'
  BY ThrowKeepsWorkers DEF ReminderFails, IInv
<1>2. \A n \in notifications' \ notifications :
          n \in Notification /\ n.dueAt < n.createdAt /\ n.createdAt <= now
  BY PersistIsNotEarly DEF ReminderFails
<1>3. faults' \in 0 .. MaxFaults
  BY ConstantsAssumption DEF ReminderFails, IInv, TypeOK
<1>. QED BY <1>1, <1>2, <1>3, WorkerStep DEF ReminderFails, IInv, TypeOK

LEMMA WorkerCrashesInvariant ==
    ASSUME IInv, NEW w \in Workers, WorkerCrashes(w)
    PROVE  IInv'
<1>. DEFINE r == worker[w].id
            stalled == [jobs[r] EXCEPT !.state = "delayed", !.runAt = now]
<1>1. r \in RevIds /\ now \in Nat
  BY DEF WorkerCrashes, IInv, TypeOK, WorkerOK
<1>2. jobs' \in [RevIds -> Job]
  <2>1. stalled \in Job
    BY <1>1 DEF IInv, TypeOK, Job
  <2>2. jobs' = jobs \/ jobs' = [jobs EXCEPT ![r] = stalled]
    BY <1>1 DEF WorkerCrashes, IInv, TypeOK
  <2>. HIDE DEF stalled
  <2>. QED BY <1>1, <2>1, <2>2 DEF IInv, TypeOK
<1>3. worker' \in [Workers -> WorkerSlot] /\ WorkerOK'
  <2>1. IdleSlot \in WorkerSlot /\ IdleSlot.pc = "idle"
    BY InitialRecords DEF IdleSlot
  <2>. QED BY <2>1, OccupyKeepsWorkers DEF WorkerCrashes, IInv
<1>4. faults' \in 0 .. MaxFaults
  BY ConstantsAssumption, SMTT(30) DEF WorkerCrashes, IInv, TypeOK
<1>. QED BY <1>2, <1>3, <1>4, WorkerStep DEF WorkerCrashes, IInv, TypeOK

LEMMA RemoveJobInvariant ==
    ASSUME IInv, NEW r \in RevIds, RemoveJob(r)
    PROVE  IInv'
<1>1. jobs' \in [RevIds -> Job]
  BY InitialRecords DEF RemoveJob, IInv, TypeOK
<1>. QED BY <1>1, WorkerStep DEF RemoveJob, IInv, TypeOK, WorkerOK

LEMMA TickInvariant == ASSUME IInv, Tick PROVE IInv'
<1>1. now' \in 0 .. MaxTime /\ now' = now + 1 /\ now \in Nat
  BY ConstantsAssumption DEF Tick, IInv, TypeOK
<1>2. TypeOK'
  BY <1>1 DEF Tick, IInv, TypeOK
<1>3. RequestOK'
  BY DEF Tick, IInv, RequestOK
<1>4. WorkerOK'
  <2>1. \A w \in Workers : worker[w].dueAt \in Nat
    BY DEF IInv, TypeOK, WorkerSlot
  <2>. QED BY <1>1, <2>1 DEF Tick, IInv, WorkerOK
<1>5. ReminderNotEarly'
  <2>1. \A n \in notifications : n.dueAt \in Nat /\ n.createdAt \in Nat
    BY DEF IInv, TypeOK, Notification
  <2>. QED BY <1>1, <2>1 DEF Tick, IInv, ReminderNotEarly
<1>. QED BY <1>2, <1>3, <1>4, <1>5 DEF IInv

LEMMA StepInvariant == IInv /\ [Next]_vars => IInv'
<1>. SUFFICES ASSUME IInv, [Next]_vars PROVE IInv'
  OBVIOUS
<1>1. ASSUME NEW c \in Clients, Receive(c) PROVE IInv'
  BY <1>1, ScheduleInvariant, CompleteInvariant, SnoozeInvariant, SkipInvariant,
     RescheduleInvariant DEF Receive
<1>2. ASSUME NEW c \in Clients, Serve(c) PROVE IInv'
  BY <1>2, ClearInvariant, CreateInvariant, EnqueueInvariant, EnqueueRejectedInvariant,
     WriteInvariant, RereadInvariant DEF Serve
<1>3. ASSUME NEW c \in Clients, RequestFails(c) PROVE IInv'
  BY <1>3, RequestFailsInvariant
<1>4. ASSUME NEW w \in Workers, NEW r \in RevIds, StartReminder(w, r) PROVE IInv'
  BY <1>4, StartReminderInvariant
<1>5. ASSUME NEW w \in Workers, StartSweep(w) PROVE IInv'
  BY <1>5, StartSweepInvariant
<1>6. ASSUME NEW w \in Workers, Process(w) PROVE IInv'
  BY <1>6, ReadInvariant, MarkInvariant, NotifyInvariant DEF Process
<1>7. ASSUME NEW w \in Workers, ReminderFails(w) \/ WorkerCrashes(w) PROVE IInv'
  BY <1>7, ReminderFailsInvariant, WorkerCrashesInvariant
<1>8. ASSUME NEW r \in RevIds, RemoveJob(r) PROVE IInv'
  BY <1>8, RemoveJobInvariant
<1>9. CASE Tick
  BY <1>9, TickInvariant
<1>10. CASE UNCHANGED vars
  BY <1>10 DEF vars, IInv, TypeOK, RequestOK, WorkerOK, ReminderNotEarly
<1>. QED BY <1>1, <1>2, <1>3, <1>4, <1>5, <1>6, <1>7, <1>8, <1>9, <1>10 DEF Next

-----------------------------------------------------------------------------
(* The theorems.                                                            *)

\* The inductive invariant holds in every reachable state, whatever the
\* numbers of requests, worker slots, failures and revisions.
THEOREM Invariant == Spec => []IInv
<1>1. Init => IInv
  BY InitInvariant
<1>2. IInv /\ [Next]_vars => IInv'
  BY StepInvariant
<1>. QED BY <1>1, <1>2, PTL DEF Spec

\* Documents, jobs, requests and worker slots keep their shape; no rung is
\* beyond MAX_REVISION_INTERVALS and no job beyond its attempts.
THEOREM TypeCorrect == Spec => []TypeOK
<1>1. IInv => TypeOK
  BY DEF IInv
<1>. QED BY <1>1, Invariant, PTL

\* No reminder names a date that had not passed when it was stored, whatever
\* happened to its revision between fireReminder's read and notify's write.
THEOREM NoEarlyReminder == Spec => []ReminderNotEarly
<1>1. IInv => ReminderNotEarly
  BY DEF IInv
<1>. QED BY <1>1, Invariant, PTL

-----------------------------------------------------------------------------
(* The engine implements ReminderPromise, and what follows from that.       *)

\* What is not there is blank, and an id that was not taken yet is not there.
DocumentsOK ==
    \A r \in RevIds :
        /\ ~Exists(r) => revisions[r] = NoRevision
        /\ r >= nextId => ~Exists(r)

\* A step keeps the documents and is a step the promise allows, or none.
Simulated == DocumentsOK' /\ [Promise!Next]_(Promise!vars)

-----------------------------------------------------------------------------
(* The initial states.                                                      *)

LEMMA InitSimulated == Init => DocumentsOK /\ Promise!Init
<1>. SUFFICES ASSUME Init PROVE DocumentsOK /\ Promise!Init
  OBVIOUS
<1>1. \A r \in RevIds : /\ revisions[r] = NoRevision /\ ~Exists(r)
                        /\ r \in Nat \ {0} /\ ~(r < nextId)
  BY ConstantsAssumption DEF Init, Exists, NoRevision, RevIds
<1>2. DocumentsOK
  BY <1>1 DEF DocumentsOK
<1>3. PromiseState = [r \in RevIds |-> "fresh"]
  BY <1>1 DEF PromiseState, Open, Exists
<1>4. PromiseDue \in [RevIds -> Nat]
  <2>1. NoRevision.dueAt = 0
    BY DEF NoRevision
  <2>2. \A r \in RevIds : revisions[r].dueAt \in Nat
    BY <1>1, <2>1
  <2>. QED BY <2>2 DEF PromiseDue
<1>5. InHand = {}
  BY DEF Init, InHand, Holding, IdleSlot
<1>. QED BY <1>2, <1>3, <1>4, <1>5 DEF Promise!Init, Init

-----------------------------------------------------------------------------
(* What the promise sees of a step.                                         *)

LEMMA PromiseTypes ==
    ASSUME TypeOK
    PROVE  /\ PromiseState \in [RevIds -> {"fresh", "open", "closed", "gone"}]
           /\ PromiseDue \in [RevIds -> Nat]
  BY DEF TypeOK, Revision, PromiseState, PromiseDue

\* Nothing but the jobs, the requests or the failures changed.
LEMMA QuietStep ==
    ASSUME DocumentsOK, UNCHANGED <<now, revisions, nextId, notifications>>,
           InHand' = InHand
    PROVE  Simulated
<1>1. DocumentsOK'
  BY DEF DocumentsOK, Exists
<1>2. PromiseState' = PromiseState /\ PromiseDue' = PromiseDue
  BY DEF PromiseState, PromiseDue, Exists
<1>. QED BY <1>1, <1>2 DEF Simulated, Promise!vars

\* The worker slots keep what they hold when none of them takes a step.
LEMMA SameHands == ASSUME UNCHANGED worker PROVE InHand' = InHand
  BY DEF InHand, Holding

\* A write to one document.
LEMMA WriteStep ==
    ASSUME TypeOK, TypeOK', NEW r \in RevIds,
           \A q \in RevIds \ {r} : revisions'[q] = revisions[q] /\ (q < nextId' <=> q < nextId),
           Promise!Allowed(PromiseState[r], PromiseState'[r]),
           now' = now, notifications' = notifications, InHand' = InHand
    PROVE  [Promise!Next]_(Promise!vars)
<1>1. /\ PromiseState' \in [RevIds -> {"fresh", "open", "closed", "gone"}]
      /\ PromiseDue' \in [RevIds -> Nat]
  BY PromiseTypes DEF TypeOK, Revision, PromiseState, PromiseDue
<1>2. \A q \in RevIds \ {r} :
          PromiseState'[q] = PromiseState[q] /\ PromiseDue'[q] = PromiseDue[q]
  BY DEF PromiseState, PromiseDue, Exists
<1>3. Promise!Write(r)
  BY <1>1, <1>2 DEF Promise!Write
<1>. QED BY <1>3 DEF Promise!Next

\* An update of a document that is there.
LEMMA UpdateStep ==
    ASSUME TypeOK, TypeOK', DocumentsOK, NEW r \in RevIds, Exists(r),
           NEW status \in Statuses, NEW dueAt \in Nat, NEW count \in 0 .. SnoozeCap,
           revisions' = Update(r, status, dueAt, count), nextId' = nextId,
           now' = now, notifications' = notifications, InHand' = InHand
    PROVE  Simulated
<1>1. revisions' = [revisions EXCEPT ![r] =
          [revisions[r] EXCEPT !.status = status, !.dueAt = dueAt, !.snoozeCount = count]]
  BY DEF Update, TypeOK
<1>2. \A q \in RevIds \ {r} : revisions'[q] = revisions[q]
  BY <1>1 DEF TypeOK
<1>3. revisions'[r].status = status
  BY <1>1 DEF TypeOK, Revision
<1>4. status # "absent" /\ r < nextId
  <2>1. r \in Nat /\ nextId \in Nat
    BY ConstantsAssumption DEF TypeOK, RevIds
  <2>. QED BY <2>1 DEF Statuses, Open, DocumentsOK
<1>5. DocumentsOK'
  BY <1>2, <1>3, <1>4 DEF DocumentsOK, Exists
<1>6. PromiseState[r] \in {"open", "closed"} /\ PromiseState'[r] \in {"open", "closed"}
  BY <1>3, <1>4 DEF PromiseState, Exists
<1>. HIDE DEF PromiseState
<1>7. Promise!Allowed(PromiseState[r], PromiseState'[r])
  BY <1>6 DEF Promise!Allowed
<1>. QED BY <1>2, <1>5, <1>7, WriteStep DEF Simulated

\* A slot that does not hold a finding takes a step that does not give it one.
LEMMA EmptyHands ==
    ASSUME TypeOK, NEW w \in Workers, NEW s, Occupy(w, s), ~Holding(w),
           s.pc \notin {"mark", "notify"}
    PROVE  InHand' = InHand
<1>1. \A v \in Workers : worker'[v] = IF v = w THEN s ELSE worker[v]
  BY DEF TypeOK, Occupy
<1>. QED BY <1>1 DEF InHand, Holding

\* A slot that holds a finding goes on holding it.
LEMMA FullHands ==
    ASSUME TypeOK, NEW w \in Workers, NEW s, Occupy(w, s), Holding(w),
           s.pc \in {"mark", "notify"}, s.id = worker[w].id, s.dueAt = worker[w].dueAt
    PROVE  InHand' = InHand
<1>1. \A v \in Workers : worker'[v] = IF v = w THEN s ELSE worker[v]
  BY DEF TypeOK, Occupy
<1>. QED BY <1>1 DEF InHand, Holding

\* A slot lets go of a finding, which another slot may still hold.
LEMMA ReleasedHands ==
    ASSUME TypeOK, NEW w \in Workers, NEW s, Occupy(w, s), Holding(w),
           s.pc \notin {"mark", "notify"}
    PROVE  LET found == <<worker[w].id, worker[w].dueAt>> IN
           found \in InHand /\ InHand' \in {InHand, InHand \ {found}}
<1>. DEFINE found == <<worker[w].id, worker[w].dueAt>>
            Others == {<<worker[v].id, worker[v].dueAt>> :
                          v \in {u \in Workers : u # w /\ Holding(u)}}
<1>1. \A v \in Workers : worker'[v] = IF v = w THEN s ELSE worker[v]
  BY DEF TypeOK, Occupy
<1>2. InHand' = Others
  BY <1>1 DEF InHand, Holding
<1>3. InHand = Others \cup {found}
  BY DEF InHand
<1>. HIDE DEF Others, found
<1>. QED BY <1>2, <1>3 DEF found

\* A slot takes up a finding.
LEMMA TakenHands ==
    ASSUME TypeOK, NEW w \in Workers, NEW s, Occupy(w, s), ~Holding(w),
           s.pc \in {"mark", "notify"}
    PROVE  InHand' = InHand \cup {<<s.id, s.dueAt>>}
<1>1. \A v \in Workers : worker'[v] = IF v = w THEN s ELSE worker[v]
  BY DEF TypeOK, Occupy
<1>. QED BY <1>1 DEF InHand, Holding

\* fireReminder's end, however it comes, leaves the slot with nothing in hand.
LEMMA EndOfReminder ==
    ASSUME TypeOK, NEW w \in Workers, Return(w) \/ Throw(w)
    PROVE  \E s : Occupy(w, s) /\ s.pc \notin {"mark", "notify"}
<1>1. IdleSlot.pc \notin {"mark", "notify"}
  BY DEF IdleSlot
<1>2. \A next : LET s == [worker[w] EXCEPT !.pc = "read", !.id = next[1], !.dueAt = 0,
                                           !.batch = @ \ {next}]
                IN  s.pc \notin {"mark", "notify"}
  BY DEF TypeOK, WorkerSlot
<1>3. CASE Occupy(w, IdleSlot)
  BY <1>1, <1>3
<1>4. CASE \E next \in worker[w].batch :
              Occupy(w, [worker[w] EXCEPT !.pc = "read", !.id = next[1], !.dueAt = 0,
                                          !.batch = @ \ {next}])
  BY <1>2, <1>4
<1>. QED BY <1>3, <1>4 DEF Return, Throw

-----------------------------------------------------------------------------
(* Every step is simulated.                                                 *)

\* A new document: the id was not taken, so its revision is fresh.
LEMMA CreateSimulated ==
    ASSUME IInv, IInv', DocumentsOK, NEW c \in Clients, CreateRung(c)
    PROVE  Simulated
<1>1. nextId \in RevIds /\ nextId' = nextId + 1 /\ \A q \in RevIds : q \in Nat
  BY ConstantsAssumption DEF IInv, TypeOK, RevIds, CreateRung
<1>2. \A q \in RevIds \ {nextId} :
          revisions'[q] = revisions[q] /\ (q < nextId' <=> q < nextId)
  BY <1>1 DEF IInv, TypeOK, CreateRung
<1>3. revisions'[nextId].status = "scheduled"
  BY <1>1 DEF IInv, TypeOK, CreateRung
<1>4. PromiseState[nextId] = "fresh" /\ PromiseState'[nextId] = "open"
  BY <1>1, <1>3 DEF PromiseState, Exists, DocumentsOK, Open
<1>5. DocumentsOK'
  BY <1>1, <1>2, <1>3 DEF DocumentsOK, Exists
<1>. HIDE DEF PromiseState
<1>6. Promise!Allowed(PromiseState[nextId], PromiseState'[nextId])
  BY <1>4 DEF Promise!Allowed
<1>7. now' = now /\ notifications' = notifications /\ InHand' = InHand
  BY SameHands DEF CreateRung
<1>. QED BY <1>1, <1>2, <1>5, <1>6, <1>7, WriteStep DEF IInv, Simulated

\* A delete: of a document that is there, or of one that was deleted already.
LEMMA ClearSimulated ==
    ASSUME IInv, IInv', DocumentsOK, NEW c \in Clients, NEW r \in RevIds,
           ClearOutstanding(c, r)
    PROVE  Simulated
<1>1. revisions' = [revisions EXCEPT ![r] = NoRevision] /\ nextId' = nextId
  BY DEF ClearOutstanding
<1>2. now' = now /\ notifications' = notifications /\ InHand' = InHand
  BY SameHands DEF ClearOutstanding
<1>3. CASE ~Exists(r)
  <2>1. revisions' = revisions
    BY <1>1, <1>3 DEF DocumentsOK, IInv, TypeOK
  <2>. QED BY <1>1, <1>2, <2>1, QuietStep
<1>4. CASE Exists(r)
  <2>1. \A q \in RevIds \ {r} : revisions'[q] = revisions[q]
    BY <1>1 DEF IInv, TypeOK
  <2>2. revisions'[r] = NoRevision /\ NoRevision.status = "absent"
    BY <1>1 DEF IInv, TypeOK, NoRevision
  <2>3. r < nextId
    <3>1. r \in Nat /\ nextId \in Nat
      BY ConstantsAssumption DEF IInv, TypeOK, RevIds
    <3>. QED BY <1>4, <3>1 DEF DocumentsOK
  <2>4. PromiseState[r] \in {"open", "closed"} /\ PromiseState'[r] = "gone"
    BY <1>1, <1>4, <2>2, <2>3 DEF PromiseState, Exists, Open
  <2>5. DocumentsOK'
    BY <1>1, <2>1, <2>2 DEF DocumentsOK, Exists
  <2>. HIDE DEF PromiseState
  <2>6. Promise!Allowed(PromiseState[r], PromiseState'[r])
    BY <2>4 DEF Promise!Allowed
  <2>. QED BY <1>1, <1>2, <2>1, <2>5, <2>6, WriteStep DEF IInv, Simulated
<1>. QED BY <1>3, <1>4

\* The writes of complete, snooze, skip and reschedule.
LEMMA UpdateSimulated ==
    ASSUME IInv, IInv', DocumentsOK, NEW c \in Clients,
           WriteCompleted(c) \/ WriteSnoozed(c) \/ WriteSkipped(c) \/ WriteRescheduled(c)
    PROVE  Simulated
<1>. DEFINE r == api[c].id
<1>1. r \in RevIds /\ api[c] \in Request
  BY DEF IInv, TypeOK, RequestOK, WriteCompleted, WriteSnoozed, WriteSkipped, WriteRescheduled
<1>2. /\ revisions[r].dueAt \in Nat /\ revisions[r].snoozeCount \in 0 .. SnoozeCap
      /\ api[c].dueAt \in Nat /\ api[c].snoozeCount \in 0 .. SnoozeCap
  BY <1>1 DEF IInv, TypeOK, Revision, Request
<1>3. UNCHANGED <<now, nextId, notifications>> /\ InHand' = InHand
  BY SameHands DEF WriteCompleted, WriteSnoozed, WriteSkipped, WriteRescheduled
<1>4. \/ revisions' = revisions
      \/ /\ Exists(r)
         /\ \E status \in Statuses, dueAt \in Nat, count \in 0 .. SnoozeCap :
                revisions' = Update(r, status, dueAt, count)
  <2>1. {"completed", "snoozed", "skipped", "scheduled"} \subseteq Statuses
    BY DEF Statuses, Open
  <2>2. CASE WriteCompleted(c)
    BY <1>2, <2>1, <2>2 DEF WriteCompleted
  <2>3. CASE WriteSnoozed(c)
    BY <1>2, <2>1, <2>3 DEF WriteSnoozed
  <2>4. CASE WriteSkipped(c)
    BY <1>2, <2>1, <2>4 DEF WriteSkipped
  <2>5. CASE WriteRescheduled(c)
    BY <1>2, <2>1, <2>5 DEF WriteRescheduled
  <2>. QED BY <2>2, <2>3, <2>4, <2>5
<1>5. CASE revisions' = revisions
  BY <1>3, <1>5, QuietStep
<1>6. ASSUME Exists(r), NEW status \in Statuses, NEW dueAt \in Nat,
             NEW count \in 0 .. SnoozeCap, revisions' = Update(r, status, dueAt, count)
      PROVE  Simulated
  BY <1>1, <1>3, <1>6, UpdateStep DEF IInv
<1>. QED BY <1>4, <1>5, <1>6

\* fireReminder's read: it finds the revision open and overdue, or is done.
LEMMA ReadSimulated ==
    ASSUME IInv, IInv', DocumentsOK, NEW w \in Workers, ReadRevision(w)
    PROVE  Simulated
<1>. DEFINE r == worker[w].id
            Found(pc) == [worker[w] EXCEPT !.dueAt = revisions[r].dueAt, !.pc = pc]
<1>1. worker[w] \in WorkerSlot /\ r \in RevIds /\ ~Holding(w)
  BY DEF IInv, TypeOK, WorkerOK, ReadRevision, Holding
<1>2. UNCHANGED <<now, revisions, nextId, notifications>>
  BY DEF ReadRevision
<1>3. CASE Return(w)
  <2>1. InHand' = InHand
    BY <1>1, <1>3, EndOfReminder, EmptyHands DEF IInv
  <2>. QED BY <1>2, <2>1, QuietStep
<1>4. ASSUME NEW pc \in {"mark", "notify"}, Occupy(w, Found(pc)),
             revisions[r].status \in Open, isPast(revisions[r].dueAt)
      PROVE  Simulated
  <2>1. /\ Found(pc).pc = pc /\ Found(pc).id = r
        /\ Found(pc).dueAt = revisions[r].dueAt
    BY <1>1 DEF WorkerSlot
  <2>. HIDE DEF Found
  <2>2. InHand' = InHand \cup {<<r, PromiseDue[r]>>}
    BY <1>1, <1>4, <2>1, TakenHands DEF IInv, PromiseDue
  <2>3. PromiseState[r] = "open" /\ PromiseDue[r] < now
    BY <1>1, <1>4 DEF PromiseState, PromiseDue, isPast
  <2>4. PromiseState' = PromiseState /\ PromiseDue' = PromiseDue /\ DocumentsOK'
    BY <1>2 DEF PromiseState, PromiseDue, Exists, DocumentsOK
  <2>. HIDE DEF PromiseState, PromiseDue, InHand
  <2>5. Promise!Find(r)
    BY <1>2, <2>2, <2>3, <2>4 DEF Promise!Find
  <2>. QED BY <1>1, <2>4, <2>5 DEF Simulated, Promise!Next
<1>5. \/ Return(w)
      \/ /\ revisions[r].status \in Open /\ isPast(revisions[r].dueAt)
         /\ \E pc \in {"mark", "notify"} : Occupy(w, Found(pc))
  BY DEF ReadRevision
<1>. QED BY <1>3, <1>4, <1>5

LEMMA MarkDueSimulated ==
    ASSUME IInv, IInv', DocumentsOK, NEW w \in Workers, MarkDue(w)
    PROVE  Simulated
<1>. DEFINE r == worker[w].id
            s == [worker[w] EXCEPT !.pc = "notify"]
<1>1. worker[w] \in WorkerSlot /\ r \in RevIds /\ Holding(w)
  BY DEF IInv, TypeOK, WorkerOK, MarkDue, Holding
<1>2. /\ revisions[r].dueAt \in Nat /\ revisions[r].snoozeCount \in 0 .. SnoozeCap
      /\ "due" \in Statuses
  BY <1>1 DEF IInv, TypeOK, Revision, Statuses, Open
<1>3. s.pc = "notify" /\ s.id = r /\ s.dueAt = worker[w].dueAt
  BY <1>1 DEF WorkerSlot
<1>4. Occupy(w, s)
  BY DEF MarkDue
<1>. HIDE DEF s
<1>5. InHand' = InHand
  BY <1>1, <1>3, <1>4, FullHands DEF IInv
<1>. QED BY <1>1, <1>2, <1>5, UpdateStep DEF MarkDue, IInv

\* A step that only lets go of what the slot held.
LEMMA DropStep ==
    ASSUME IInv, DocumentsOK, NEW w \in Workers, NEW s, Occupy(w, s),
           s.pc \notin {"mark", "notify"},
           UNCHANGED <<now, revisions, nextId, notifications>>
    PROVE  Simulated
<1>. DEFINE found == <<worker[w].id, worker[w].dueAt>>
<1>1. PromiseState' = PromiseState /\ PromiseDue' = PromiseDue /\ DocumentsOK'
  BY DEF PromiseState, PromiseDue, Exists, DocumentsOK
<1>2. CASE InHand' = InHand
  BY <1>2, QuietStep
<1>3. CASE found \in InHand /\ InHand' = InHand \ {found}
  <2>. HIDE DEF PromiseState, PromiseDue, InHand
  <2>1. Promise!Drop(found)
    BY <1>1, <1>3 DEF Promise!Drop
  <2>. QED BY <1>1, <1>3, <2>1 DEF Simulated, Promise!Next
<1>. QED BY <1>2, <1>3, EmptyHands, ReleasedHands DEF IInv

LEMMA MarkMissingSimulated ==
    ASSUME IInv, IInv', DocumentsOK, NEW w \in Workers, MarkMissing(w)
    PROVE  Simulated
<1>1. UNCHANGED <<now, revisions, nextId, notifications>>
  BY DEF MarkMissing
<1>2. CASE Throw(w)
  BY <1>1, <1>2, EndOfReminder, DropStep DEF IInv
<1>3. CASE Occupy(w, [worker[w] EXCEPT !.pc = "notify"])
  <2>. DEFINE s == [worker[w] EXCEPT !.pc = "notify"]
  <2>1. worker[w] \in WorkerSlot /\ Holding(w)
    BY DEF IInv, TypeOK, MarkMissing, Holding
  <2>2. s.pc = "notify" /\ s.id = worker[w].id /\ s.dueAt = worker[w].dueAt
    BY <2>1 DEF WorkerSlot
  <2>. HIDE DEF s
  <2>3. Occupy(w, s)
    BY <1>3 DEF s
  <2>4. InHand' = InHand
    BY <2>1, <2>2, <2>3, FullHands DEF IInv
  <2>. QED BY <1>1, <2>4, QuietStep
<1>. QED BY <1>2, <1>3 DEF MarkMissing

\* The notice names what the slot holds.
LEMMA AnnounceStep ==
    ASSUME IInv, DocumentsOK, NEW w \in Workers, worker[w].pc = "notify",
           Persist(w), Return(w) \/ Throw(w), UNCHANGED <<now, revisions, nextId>>
    PROVE  Simulated
<1>. DEFINE found == <<worker[w].id, worker[w].dueAt>>
<1>1. PromiseState' = PromiseState /\ PromiseDue' = PromiseDue /\ DocumentsOK'
  BY DEF PromiseState, PromiseDue, Exists, DocumentsOK
<1>2. found \in InHand /\ InHand' \in {InHand, InHand \ {found}}
  BY EndOfReminder, ReleasedHands DEF IInv, Holding
<1>3. notifications' = notifications \cup
          {[id |-> found[1], dueAt |-> found[2], createdAt |-> now]}
  BY DEF Persist
<1>. HIDE DEF PromiseState, PromiseDue, InHand, found
<1>4. Promise!Announce(found)
  BY <1>1, <1>2, <1>3 DEF Promise!Announce
<1>. QED BY <1>1, <1>2, <1>4 DEF Simulated, Promise!Next

LEMMA NotifySimulated ==
    ASSUME IInv, DocumentsOK, NEW w \in Workers, Notify(w)
    PROVE  Simulated
  BY AnnounceStep DEF Notify

LEMMA ReminderFailsSimulated ==
    ASSUME IInv, DocumentsOK, NEW w \in Workers, ReminderFails(w)
    PROVE  Simulated
<1>1. CASE UNCHANGED notifications
  BY <1>1, EndOfReminder, DropStep DEF ReminderFails, IInv
<1>2. CASE worker[w].pc = "notify" /\ Persist(w)
  BY <1>2, AnnounceStep DEF ReminderFails
<1>. QED BY <1>1, <1>2 DEF ReminderFails

LEMMA WorkerCrashesSimulated ==
    ASSUME IInv, DocumentsOK, NEW w \in Workers, WorkerCrashes(w)
    PROVE  Simulated
<1>1. IdleSlot.pc \notin {"mark", "notify"}
  BY DEF IdleSlot
<1>. QED BY <1>1, DropStep DEF WorkerCrashes

\* A slot that was idle takes a job; it has found nothing yet.
LEMMA StartSimulated ==
    ASSUME IInv, DocumentsOK, NEW w \in Workers,
           StartSweep(w) \/ \E r \in RevIds : StartReminder(w, r)
    PROVE  Simulated
<1>1. \E s : Occupy(w, s) /\ s.pc = "read"
  <2>1. \A r, b : [IdleSlot EXCEPT !.pc = "read", !.id = r, !.batch = b].pc = "read"
    BY DEF IdleSlot
  <2>2. \A r : [IdleSlot EXCEPT !.pc = "read", !.job = "reminder", !.id = r].pc = "read"
    BY DEF IdleSlot
  <2>3. CASE StartSweep(w)
    BY <2>1, <2>3 DEF StartSweep
  <2>4. CASE \E r \in RevIds : StartReminder(w, r)
    BY <2>2, <2>4 DEF StartReminder
  <2>. QED BY <2>3, <2>4
<1>. QED BY <1>1, DropStep DEF StartSweep, StartReminder

LEMMA TickSimulated ==
    ASSUME IInv, DocumentsOK, Tick
    PROVE  Simulated
<1>1. PromiseState' = PromiseState /\ PromiseDue' = PromiseDue /\ DocumentsOK'
  BY DEF Tick, PromiseState, PromiseDue, Exists, DocumentsOK
<1>2. InHand' = InHand
  BY SameHands DEF Tick
<1>. HIDE DEF PromiseState, PromiseDue, InHand
<1>3. Promise!Tick
  BY <1>1, <1>2 DEF Promise!Tick, Tick
<1>. QED BY <1>1, <1>3 DEF Simulated, Promise!Next

\* The steps of a request that write no document.
LEMMA QuietRequests ==
    ASSUME DocumentsOK, NEW c \in Clients,
           \/ Receive(c) \/ EnqueueReminder(c) \/ EnqueueRejected(c)
           \/ RereadCompleted(c) \/ RequestFails(c)
    PROVE  Simulated
<1>1. UNCHANGED <<now, revisions, nextId, notifications, worker>>
  BY DEF Receive, BeginSchedule, BeginComplete, BeginSnooze, BeginSkip, BeginReschedule,
         Accept, EnqueueReminder, EnqueueRejected, RereadCompleted, RequestFails
<1>. QED BY <1>1, SameHands, QuietStep

LEMMA StepSimulated ==
    IInv /\ DocumentsOK /\ [Next]_vars => Simulated
<1>. SUFFICES ASSUME IInv, DocumentsOK, [Next]_vars PROVE Simulated
  OBVIOUS
<1>1. IInv'
  BY StepInvariant
<1>2. ASSUME NEW c \in Clients, Receive(c) \/ Serve(c) \/ RequestFails(c)
      PROVE  Simulated
  BY <1>1, <1>2, QuietRequests, ClearSimulated, CreateSimulated, UpdateSimulated DEF Serve
<1>3. ASSUME NEW w \in Workers,
             StartSweep(w) \/ \E r \in RevIds : StartReminder(w, r)
      PROVE  Simulated
  BY <1>3, StartSimulated
<1>4. ASSUME NEW w \in Workers, Process(w) PROVE Simulated
  BY <1>1, <1>4, ReadSimulated, MarkDueSimulated, MarkMissingSimulated, NotifySimulated
     DEF Process
<1>5. ASSUME NEW w \in Workers, ReminderFails(w) \/ WorkerCrashes(w) PROVE Simulated
  BY <1>5, ReminderFailsSimulated, WorkerCrashesSimulated
<1>6. ASSUME NEW r \in RevIds, RemoveJob(r) PROVE Simulated
  BY <1>6, SameHands, QuietStep DEF RemoveJob
<1>7. CASE Tick
  BY <1>7, TickSimulated
<1>8. CASE UNCHANGED vars
  BY <1>8, SameHands, QuietStep DEF vars
<1>. QED BY <1>2, <1>3, <1>4, <1>5, <1>6, <1>7, <1>8 DEF Next

-----------------------------------------------------------------------------
(* The theorems.                                                            *)

\* The engine implements the promise: whatever requests, jobs, failures and
\* crashes do to a revision, a notice names a date at which that revision was
\* found open and overdue.
THEOREM PromiseIsKept == Spec => KeepsPromise
<1>1. Init => IInv /\ DocumentsOK /\ Promise!Init
  BY InitInvariant, InitSimulated
<1>2. IInv /\ DocumentsOK /\ [Next]_vars
        => (IInv /\ DocumentsOK)' /\ [Promise!Next]_(Promise!vars)
  BY StepInvariant, StepSimulated DEF Simulated
<1>. QED BY <1>1, <1>2, PTL DEF Spec, KeepsPromise, Promise!Spec

\* A step the promise allows takes no revision back from `gone'.
LEMMA GoneForGood ==
    ASSUME IInv, IInv', DocumentsOK, Simulated, NEW r \in RevIds, r < nextId, ~Exists(r)
    PROVE  revisions'[r].status = "absent"
<1>1. PromiseState[r] = "gone"
  BY DEF PromiseState, Exists, Open
<1>2. PromiseState'[r] = "gone"
  <2>. HIDE DEF PromiseState, PromiseDue, InHand
  <2>1. ASSUME NEW q \in RevIds, Promise!Write(q) PROVE PromiseState'[r] = "gone"
    BY <1>1, <2>1 DEF Promise!Write, Promise!Allowed
  <2>2. CASE PromiseState' = PromiseState
    BY <1>1, <2>2
  <2>. QED BY <2>1, <2>2 DEF Simulated, Promise!Next, Promise!vars, Promise!Find,
                             Promise!Drop, Promise!Announce, Promise!Tick
<1>. QED BY <1>2 DEF PromiseState, Exists, Open

\* No request and no reminder brings a deleted revision back, however long
\* they have held its id.
THEOREM DeletedForGood == Spec => DeletedStaysDeleted
<1>1. Init => IInv /\ DocumentsOK
  BY InitInvariant, InitSimulated
<1>2. IInv /\ DocumentsOK /\ [Next]_vars
        => /\ (IInv /\ DocumentsOK)'
           /\ [\A r \in RevIds :
                  r < nextId /\ ~Exists(r) => revisions'[r].status = "absent"]_vars
  BY StepInvariant, StepSimulated, GoneForGood DEF Simulated
<1>. QED BY <1>1, <1>2, PTL DEF Spec, DeletedStaysDeleted

=============================================================================
