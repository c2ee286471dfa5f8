---------------------------- MODULE StudyRecords ----------------------------
(***************************************************************************)
(* The documents one user fills in: tasks, study sessions, reflections and *)
(* notes, with the problems, the revisions and the habit logs that          *)
(* Dashboard and Analytics read beside them.                               *)
(*                                                                         *)
(* Time is counted in ticks from the start of a week; a day has DayTicks   *)
(* of them and a week DaysPerWeek days.  A document keeps its place in     *)
(* `docs' for good; one that was deleted is in no collection any more.     *)
(* An update is a read (the 404 check) and, an await later, a merge of the *)
(* patch into whatever the document has become.  Which jobs and rungs a    *)
(* revision brings with it is the matter of RevisionEngine, what a problem *)
(* does to its topic that of Roadmap: here only the documents count.       *)
(* Definitions marked "slip" are wrong versions of the one that follows.   *)
(***************************************************************************)
EXTENDS Documents, FiniteSets, Functions

CONSTANTS
    Clients,      \* concurrent API requests of the user, and reminders of the worker
    Collections,  \* the collections the user works in
    DayTicks, DaysPerWeek,
    Dates,        \* due dates and start times a request may carry
    Reminders,    \* reminder times a request may carry
    Statuses,     \* statuses of a task a request may carry
    Solving,      \* statuses of a problem a request may carry
    Minutes,      \* minutes of a study session
    MaxTime,      \* bound: the last tick
    MaxDocs,      \* bound: documents ever created
    MaxRequests   \* bound: requests accepted

TaskStatuses == {"pending", "in_progress", "completed", "overdue", "cancelled"}
ProblemStatuses == {"not_started", "in_progress", "completed", "revision_due", "mastered"}
RevisionStatuses == {"scheduled", "due", "completed", "snoozed", "skipped"}
CollectionNames ==
    {"tasks", "study_sessions", "reflections", "notes", "problems", "revisions", "habits"}

ASSUME ConstantsAssumption ==
    /\ Collections \subseteq CollectionNames
    /\ DayTicks \in Nat \ {0} /\ DaysPerWeek \in Nat \ {0}
    /\ Statuses \subseteq TaskStatuses /\ Solving \subseteq ProblemStatuses /\ Reminders \subseteq Nat
    /\ Dates \subseteq Nat /\ Dates # {} /\ Minutes \subseteq Nat
    /\ MaxTime \in Nat /\ DayTicks <= MaxTime + 1 /\ MaxDocs \in Nat /\ MaxRequests \in Nat

VARIABLES
    now,      \* the clock
    docs,     \* the user's documents, in the order of their creation
    api,      \* one API request per client
    requests  \* requests accepted so far

vars == <<now, docs, api, requests>>

Times == 0 .. MaxTime
dayKeyOf(t) == t \div DayTicks
dayKey == dayKeyOf(now)
startOfDay == dayKey * DayTicks
endOfDay == startOfDay + DayTicks - 1
WeekTicks == DayTicks * DaysPerWeek
startOfIsoWeek(t) == (t \div WeekTicks) * WeekTicks
isPast(t) == t < now

\* One shape for all collections.  `at' is dueDate, dueAt, startTime or dayKey;
\* `doneAt' is completedAt or dateSolved; `flag' is goalsCompleted or isArchived.
Document ==
    [collection : Collections \union {"deleted"},
     status : TaskStatuses \union ProblemStatuses \union RevisionStatuses \union {"none"},
     at : Nat \union {Absent}, reminderAt : Reminders \union {Absent},
     doneAt : Times \union {Absent}, durationMinutes : Minutes \union {0},
     flag : BOOLEAN, createdAt : Times, updatedAt : Times]

\* The document of no collection: what a delete leaves, and what a create fills in.
Blank ==
    [collection |-> "deleted", status |-> "none", at |-> Absent, reminderAt |-> Absent,
     doneAt |-> Absent, durationMinutes |-> 0, flag |-> FALSE, createdAt |-> 0, updatedAt |-> 0]

Ids == 1 .. MaxDocs

\* allForUser: the documents of a collection.
In(name) == {id \in DOMAIN docs : docs[id].collection = name}

-----------------------------------------------------------------------------
(* The store.                                                               *)

\* The requests that are about to write a document of their own.
Creating == {c \in Clients : api[c].op \in {"create", "rung"}}

Room == Len(docs) + Cardinality(Creating) < MaxDocs

\* The fields of the patch over those of the document.
Merged(doc, patch) ==
    [field \in DOMAIN doc |-> IF field \in DOMAIN patch THEN patch[field] ELSE doc[field]]

Stored(name, data) == [data EXCEPT !.collection = name, !.createdAt = now, !.updatedAt = now]

create(name, data) ==
    /\ name \in Collections /\ Room /\ requests < MaxRequests
    /\ docs' = Append(docs, Stored(name, data))
    /\ requests' = requests + 1
    /\ UNCHANGED <<now, api>>

\* Slip: the document is written back though it was deleted.
updateUpsert(id, patch) == docs' = [docs EXCEPT ![id] = Merged([@ EXCEPT !.updatedAt = now], patch)]

\* The patch is merged into the document; there is none to merge into once it
\* was deleted.
update(id, patch) ==
    IF docs[id].collection = "deleted" THEN UNCHANGED docs
    ELSE docs' = [docs EXCEPT ![id] = Merged([@ EXCEPT !.updatedAt = now], patch)]

\* What a request still has to do, and with what.
Idle == [op |-> "idle", id |-> 0, patch |-> <<>>]

Begin(c, name, op, id, patch) ==
    /\ api[c].op = "idle" /\ requests < MaxRequests /\ id \in In(name)
    /\ api' = [api EXCEPT ![c] = [op |-> op, id |-> id, patch |-> patch]]
    /\ requests' = requests + 1
    /\ UNCHANGED <<now, docs>>

Answer(c) ==
    /\ api' = [api EXCEPT ![c] = Idle]
    /\ UNCHANGED <<now, requests>>

WriteUpdate(c) ==
    /\ api[c].op = "update"
    /\ update(api[c].id, api[c].patch)
    /\ Answer(c)

RemoveDocument(c) ==
    /\ api[c].op = "delete"
    /\ docs' = [docs EXCEPT ![api[c].id] = Blank]
    /\ Answer(c)

\* scheduleRevisions deletes what it found not completed; the other collections
\* have a delete of their own.
BeginDelete(c) ==
    \E name \in CollectionNames \ {"habits"}, id \in Ids :
        /\ Begin(c, name, "delete", id, <<>>)
        /\ name = "revisions" => docs[id].status # "completed"

-----------------------------------------------------------------------------
(* Tasks.                                                                   *)

\* The status a reader is shown.
withComputedStatus(task) ==
    IF task.at # Absent /\ task.status \in {"pending", "in_progress"} /\ isPast(task.at)
    THEN [task EXCEPT !.status = "overdue"] ELSE task

createTask ==
    \E status \in Statuses, at \in Dates \union {Absent}, reminderAt \in Reminders \union {Absent} :
        create("tasks", [Blank EXCEPT !.status = status, !.at = at, !.reminderAt = reminderAt,
                            !.doneAt = IF status = "completed" THEN now ELSE Absent])

\* Slip: reopening a task also clears the time of its completion.
StatusPatchCleared(task, status) ==
    IF status = "completed" /\ withComputedStatus(task).status # "completed"
    THEN [status |-> status, doneAt |-> now]
    ELSE IF withComputedStatus(task).status = "completed" /\ status # "completed"
         THEN [status |-> status, doneAt |-> Absent]
         ELSE [status |-> status]

\* completedAt is added when the task that was read was not completed yet.
StatusPatch(task, status) ==
    IF status = "completed" /\ withComputedStatus(task).status # "completed"
    THEN [status |-> status, doneAt |-> now]
    ELSE [status |-> status]

BeginUpdateTask(c) ==
    \E id \in In("tasks") :
        \/ \E status \in Statuses : Begin(c, "tasks", "update", id, StatusPatch(docs[id], status))
        \/ \E at \in Dates : Begin(c, "tasks", "update", id, [at |-> at])

TaskList(status, page, limit) ==
    LET filters == IF status = "any" THEN {} ELSE {Filter("status", "==", status)}
        result == paginateForUser(docs, In("tasks"), filters, "createdAt", "desc", page, limit)
    IN [result EXCEPT !.items =
           [i \in DOMAIN @ |-> [id |-> @[i].id, doc |-> withComputedStatus(@[i].doc)]]]

findCompletedSince(since) ==
    applyFilters(docs, In("tasks"),
        {Filter("status", "==", "completed"), Filter("doneAt", ">=", since)})

-----------------------------------------------------------------------------
(* Study sessions.                                                          *)

createSession ==
    \E at \in Dates, minutes \in Minutes :
        create("study_sessions", [Blank EXCEPT !.at = at, !.durationMinutes = minutes])

BeginUpdateSession(c) ==
    \E id \in In("study_sessions"), at \in Dates :
        Begin(c, "study_sessions", "update", id, [at |-> at])

SessionList(from, to, page, limit) ==
    paginateForUser(docs, In("study_sessions"),
        {Filter("at", ">=", from), Filter("at", "<=", to)}, "at", "desc", page, limit)

findStartedSince(since) ==
    listForUser(docs, In("study_sessions"), {Filter("at", ">=", since)}, "at", "desc")

MinutesOf(ids) == Total([i \in 1 .. Cardinality(ids) |-> docs[Ascending(ids)[i]].durationMinutes])

summary ==
    LET sessions == Range(findStartedSince(startOfIsoWeek(now)))
        today == {id \in sessions : ~(docs[id].at < startOfDay)}
    IN [todayMinutes |-> MinutesOf(today), weekMinutes |-> MinutesOf(sessions),
        todaySessions |-> Cardinality(today), weekSessions |-> Cardinality(sessions)]

-----------------------------------------------------------------------------
(* Reflections: one for each day, as far as create can see.                 *)

\* findOne returns any one of the documents that match.
findByDay(day) == {id \in In("reflections") : docs[id].at = day}

\* create looks for the day's reflection first and, an await later, updates the
\* one it found or writes a new document.
BeginReflection(c) ==
    \E day \in {dayKeyOf(t) : t \in Dates}, goals \in BOOLEAN :
        \/ \E id \in findByDay(day) : Begin(c, "reflections", "update", id, [flag |-> goals])
        \/ /\ "reflections" \in Collections /\ api[c].op = "idle" /\ requests < MaxRequests
           /\ findByDay(day) = {} /\ Room
           /\ api' = [api EXCEPT ![c] = [op |-> "create", id |-> 0, patch |-> [at |-> day, flag |-> goals]]]
           /\ requests' = requests + 1
           /\ UNCHANGED <<now, docs>>

WriteReflection(c) ==
    /\ api[c].op = "create"
    /\ docs' = Append(docs, Stored("reflections", Merged(Blank, api[c].patch)))
    /\ Answer(c)

\* An edit may carry another dayKey, which nothing looks up.
BeginUpdateReflection(c) ==
    \E id \in In("reflections"), day \in {dayKeyOf(t) : t \in Dates} :
        Begin(c, "reflections", "update", id, [at |-> day])

\* `search' is the set of reflections whose text holds the term.
ReflectionList(from, to, search, page, limit) ==
    LET filters == {Filter("at", ">=", from), Filter("at", "<=", to)}
        matched == applyFilters(docs, In("reflections"), filters) \intersect search
    IN IF search = In("reflections")
       THEN paginateForUser(docs, In("reflections"), filters, "at", "desc", page, limit)
       ELSE Page(docs, sortInMemory(docs, matched, "at", "desc"), page, limit)

-----------------------------------------------------------------------------
(* Notes.                                                                   *)

createNote == \E archived \in BOOLEAN : create("notes", [Blank EXCEPT !.flag = archived])

BeginUpdateNote(c) ==
    \E id \in In("notes"), archived \in BOOLEAN : Begin(c, "notes", "update", id, [flag |-> archived])

NoteList(archived, search, page, limit) ==
    LET filters == {Filter("flag", "==", archived)}
        matched == applyFilters(docs, In("notes"), filters) \intersect search
    IN IF search = In("notes")
       THEN paginateForUser(docs, In("notes"), filters, "updatedAt", "desc", page, limit)
       ELSE Page(docs, sortInMemory(docs, matched, "updatedAt", "desc"), page, limit)

-----------------------------------------------------------------------------
(* Problems.                                                                *)

createProblem ==
    \E status \in Solving :
        create("problems", [Blank EXCEPT !.status = status,
                               !.doneAt = IF status = "completed" THEN now ELSE Absent])

\* dateSolved is that of the first completion: reopening keeps it.
ProblemPatch(problem, status) ==
    IF status = "completed" /\ problem.status # "completed" /\ problem.doneAt = Absent
    THEN [status |-> status, doneAt |-> now]
    ELSE [status |-> status]

BeginUpdateProblem(c) ==
    \E id \in In("problems"), status \in Solving :
        Begin(c, "problems", "update", id, ProblemPatch(docs[id], status))

-----------------------------------------------------------------------------
(* Revisions.                                                               *)

\* A rung is due a day from now at the earliest.
scheduleRevision ==
    \E at \in Dates :
        /\ at >= now + DayTicks
        /\ create("revisions", [Blank EXCEPT !.status = "scheduled", !.at = at])

\* What complete, snooze, reschedule and skip, and the worker's fireReminder, decide
\* on the revision they read; none of the writes looks at it again.
BeginUpdateRevision(c) ==
    \E id \in In("revisions") :
        \/ /\ docs[id].status # "completed"
           /\ Begin(c, "revisions", "complete", id, [status |-> "completed", doneAt |-> now])
        \/ \E at \in Dates :
              \/ /\ at >= now
                 /\ Begin(c, "revisions", "update", id, [status |-> "snoozed", at |-> at])
              \/ Begin(c, "revisions", "update", id, [status |-> "scheduled", at |-> at])
        \/ Begin(c, "revisions", "update", id, [status |-> "skipped"])
        \/ /\ docs[id].status \in {"scheduled", "snoozed"} /\ isPast(docs[id].at)
           /\ Begin(c, "revisions", "update", id, [status |-> "due"])

\* complete's write; the next rung of the ladder, if there is one, is another await.
WriteCompletion(c) ==
    /\ api[c].op = "complete"
    /\ update(api[c].id, api[c].patch)
    /\ \/ Answer(c)
       \/ /\ docs[api[c].id].collection # "deleted" /\ Room
          /\ \E at \in Dates :
                /\ at >= now + DayTicks
                /\ api' = [api EXCEPT ![c] =
                             [op |-> "rung", id |-> 0, patch |-> [status |-> "scheduled", at |-> at]]]
          /\ UNCHANGED <<now, requests>>

WriteRung(c) ==
    /\ api[c].op = "rung"
    /\ docs' = Append(docs, Stored("revisions", Merged(Blank, api[c].patch)))
    /\ Answer(c)

-----------------------------------------------------------------------------
(* Habits, and the next-state relation.                                     *)

\* A habit with one completion, today; its day is kept under `completions'.
completeHabit == create("habits", [Blank EXCEPT !.at = dayKey])

Tick == now < MaxTime /\ now' = now + 1 /\ UNCHANGED <<docs, api, requests>>

Request(c) ==
    \/ BeginUpdateTask(c) \/ BeginUpdateSession(c) \/ BeginUpdateReflection(c)
    \/ BeginUpdateNote(c) \/ BeginUpdateProblem(c) \/ BeginUpdateRevision(c)
    \/ BeginReflection(c) \/ BeginDelete(c)
    \/ WriteUpdate(c) \/ WriteReflection(c) \/ WriteCompletion(c) \/ WriteRung(c)
    \/ RemoveDocument(c)

Create ==
    \/ createTask \/ createSession \/ createNote
    \/ createProblem \/ scheduleRevision \/ completeHabit

\* The clock starts at the last tick of a day.
Init ==
    /\ now = DayTicks - 1 /\ docs = <<>> /\ api = [c \in Clients |-> Idle]
    /\ requests = 0

Next == Tick \/ Create \/ \E c \in Clients : Request(c)

Spec == Init /\ [][Next]_vars

-----------------------------------------------------------------------------
(* Properties.                                                              *)

\* The state keeps its shape, and nothing is written to a deleted document.
TypeOK ==
    /\ now \in Times /\ docs \in Seq(Document) /\ Len(docs) <= MaxDocs
    /\ \A id \in In("deleted") : docs[id] = Blank
    /\ \A c \in Clients : api[c].op \in {"idle", "create", "rung", "update", "complete", "delete"}
    /\ requests \in 0 .. MaxRequests

\* What is completed carries the time of its completion, though status and time are
\* written from a status that was read an await before, and other requests reopen and
\* complete the task or the problem in between: the dashboard and the reports count
\* by that time.
CompletedIsDated ==
    \A id \in DOMAIN docs : docs[id].status = "completed" => docs[id].doneAt \in 0 .. now

\* The views are looked at between requests: they depend on the documents and the
\* clock alone, and what is stored while a request is under way is stored without
\* that request as well.
Settled == \A c \in Clients : api[c].op = "idle"

\* What was shown after each of the pages.
Shown(pages, last) ==
    LET shown[n \in 0 .. last] == IF n = 0 THEN <<>> ELSE shown[n - 1] \o pages[n].items IN shown

\* Turning the pages of a list shows every document that matches once, in the
\* order of the list, and hasNext says truly whether there is another page.
Covers(pages, matching, field) ==
    LET last == pages[1].totalPages
        shown == Shown(pages, last)[last]
    IN /\ {shown[i].id : i \in DOMAIN shown} = matching
       /\ Len(shown) = Cardinality(matching)
       /\ \A i \in 1 .. Len(shown) - 1 : shown[i].doc[field] >= shown[i + 1].doc[field]
       /\ \A page \in DOMAIN pages : pages[page].hasNext <=> page < last
       /\ pages[last + 1].items = <<>>

\* All list handlers cover what they list, for every size of page up to one that no
\* list fills.  (Lists depend on the documents alone, and any documents may be left
\* until the clock stops.)
PagesCoverList ==
    Settled /\ now = MaxTime =>
    \A limit \in 1 .. MaxDocs + 1 :
    LET Pages == 1 .. MaxDocs + 1 IN
    /\ \A status \in Statuses :
          Covers([page \in Pages |-> TaskList(status, page, limit)],
                 {id \in In("tasks") : docs[id].status = status}, "createdAt")
    /\ \A from \in {0, DayTicks} :
          Covers([page \in Pages |-> SessionList(from, MaxTime, page, limit)],
                 {id \in In("study_sessions") : docs[id].at \in from .. MaxTime}, "at")
    /\ \A search \in SUBSET In("reflections") :
          Covers([page \in Pages |-> ReflectionList(0, MaxTime, search, page, limit)],
                 {id \in search : docs[id].at \in 0 .. MaxTime}, "at")
    /\ \A search \in SUBSET In("notes") :
          Covers([page \in Pages |-> NoteList(FALSE, search, page, limit)],
                 {id \in search : ~docs[id].flag}, "updatedAt")

=============================================================================
