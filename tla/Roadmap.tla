------------------------------- MODULE Roadmap -------------------------------
(***************************************************************************)
(* The DSA roadmap: topics with problem counts kept beside the problems    *)
(* they count, and the completions that schedule a revision ladder.        *)
(*                                                                         *)
(* Every change of a problem is followed by a recount of its topic, which  *)
(* is a read of the topic, a read of the problems and a write, each an     *)
(* await of its own (syncTopicCounts).  What scheduleRevisions does is in  *)
(* RevisionEngine; here it is one step that works or fails.  Definitions   *)
(* marked "slip" are wrong versions of the one that follows them.          *)
(***************************************************************************)
EXTENDS Integers, FiniteSets

CONSTANTS
    Clients,      \* concurrent API requests
    Ops,          \* the operations the clients of this instance use
    Progresses,   \* what a topic edit may set the progress to
    MaxTopics,    \* bound: topics ever created
    MaxProblems,  \* bound: problems ever created
    MaxRequests,  \* bound: edits, completions, moves and deletions requested
    MaxFaults     \* bound: requests that fail halfway

OpNames ==
    {"createTopic", "updateTopic", "completeTopic", "deleteTopic",
     "createProblem", "updateProblem", "moveProblem", "deleteProblem"}

ASSUME ConstantsAssumption ==
    /\ Ops \subseteq OpNames /\ Progresses \subseteq 0 .. 100
    /\ MaxTopics \in Nat /\ MaxProblems \in Nat
    /\ MaxRequests \in Nat /\ MaxFaults \in Nat

Topics == 1 .. MaxTopics
Problems == 1 .. MaxProblems
NoTopic == 0

VARIABLES
    topics,    \* the topic documents, in the order of creation
    problems,  \* the problem documents, in the order of creation
    laddered,  \* the problems and topics a revision ladder was scheduled for
    api,       \* one API request per client
    drifted,   \* history: topics whose last recount missed something
    requests,  \* requests accepted so far
    faults     \* requests that failed so far

vars == <<topics, problems, laddered, api, drifted, requests, faults>>

DocStates == {"unborn", "stored", "deleted"}

DsaTopic ==
    [state : DocStates, totalProblems : 0 .. MaxProblems,
     completedProblems : 0 .. MaxProblems, progress : 0 .. 100, isCompleted : BOOLEAN]

\* isCompleted is written together with the status, so one of the two is enough.
DsaProblem == [state : DocStates, topicId : Topics \union {NoTopic}, isCompleted : BOOLEAN]

\* An update carries a status, a topic or neither: "keep" and NoTopic are absent fields.
Request ==
    [pc : {"idle", "edit", "completeTopic", "deleteTopic", "schedule", "write", "reread",
           "remove", "findTopic", "count", "writeCounts"},
     problem : 0 .. MaxProblems, topic : Topics \union {NoTopic}, isCompleted : BOOLEAN,
     status : {"keep", "open", "completed"},
     total : 0 .. MaxProblems, completed : 0 .. MaxProblems, fresh : BOOLEAN]

IdleRequest ==
    [pc |-> "idle", problem |-> 0, topic |-> NoTopic, isCompleted |-> FALSE,
     status |-> "keep", total |-> 0, completed |-> 0, fresh |-> FALSE]

\* A topic as createTopic stores it; of a document that is gone only that it is gone is kept.
TopicIn(state) ==
    [state |-> state, totalProblems |-> 0, completedProblems |-> 0, progress |-> 0,
     isCompleted |-> FALSE]

ProblemIn(state) == [state |-> state, topicId |-> NoTopic, isCompleted |-> FALSE]

Init ==
    /\ topics = [t \in Topics |-> TopicIn("unborn")]
    /\ problems = [p \in Problems |-> ProblemIn("unborn")]
    /\ laddered = {} /\ drifted = {} /\ requests = 0 /\ faults = 0
    /\ api = [c \in Clients |-> IdleRequest]

-----------------------------------------------------------------------------
(* What a request does next, and what a write means for the others.         *)

Answer(c) == api' = [api EXCEPT ![c] = IdleRequest]
Continue(c, request) == api' = [api EXCEPT ![c] = request]

\* A request that reads a document first is taken up.
Accept(c, request) ==
    /\ api[c].pc = "idle" /\ requests < MaxRequests
    /\ requests' = requests + 1
    /\ Continue(c, request)

\* A change to the problems of topic t makes the counts others have read outdated.
Outdate(pending, ts) ==
    [c \in Clients |-> IF pending[c].topic \in ts THEN [pending[c] EXCEPT !.fresh = FALSE]
                       ELSE pending[c]]

\* The recount of topic t follows, if the problem has a topic.
SyncOf(t) == IF t = NoTopic THEN IdleRequest ELSE [IdleRequest EXCEPT !.pc = "findTopic", !.topic = t]

ScheduleOf(p, t) == [IdleRequest EXCEPT !.pc = "schedule", !.problem = p, !.topic = t]

countByTopic(t) == {p \in Problems : problems[p].state = "stored" /\ problems[p].topicId = t}
CompletedOf(t) == {p \in countByTopic(t) : problems[p].isCompleted}

\* Math.round of a percentage.
Percent(part, whole) == IF whole = 0 THEN 0 ELSE (200 * part + whole) \div (2 * whole)

-----------------------------------------------------------------------------
(* Topics.                                                                  *)

createTopic(c) ==
    /\ "createTopic" \in Ops /\ api[c].pc = "idle"
    /\ \E t \in Topics :
        /\ topics[t].state = "unborn" /\ \A s \in Topics : s < t => topics[s].state # "unborn"
        /\ topics' = [topics EXCEPT ![t] = TopicIn("stored")]
    /\ UNCHANGED <<problems, laddered, api, drifted, requests, faults>>

\* getTopic, at the start of updateTopic, completeTopic and deleteTopic.
ReadTopic(c, t, op, pc) ==
    /\ op \in Ops /\ topics[t].state = "stored"
    /\ Accept(c, [IdleRequest EXCEPT !.pc = pc, !.topic = t,
                                       !.isCompleted = topics[t].isCompleted])
    /\ UNCHANGED <<topics, problems, laddered, drifted, faults>>

updateTopic(c) ==
    /\ api[c].pc = "edit"
    /\ LET t == api[c].topic IN
       \/ topics[t].state = "stored"
          /\ \E progress \in Progresses : topics' = [topics EXCEPT ![t].progress = progress]
       \/ topics[t].state # "stored" /\ UNCHANGED topics
    /\ Answer(c)
    /\ UNCHANGED <<problems, laddered, drifted, requests, faults>>

\* The ladder is scheduled unless the copy that was read was completed already.
completeTopic(c) ==
    LET t == api[c].topic IN
    /\ api[c].pc = "completeTopic"
    /\ \/ /\ topics[t].state = "stored"
          /\ topics' = [topics EXCEPT ![t].isCompleted = TRUE, ![t].progress = 100]
          /\ IF api[c].isCompleted THEN Answer(c)
             ELSE Continue(c, ScheduleOf(0, t))
       \/ topics[t].state # "stored" /\ UNCHANGED topics /\ Answer(c)
    /\ UNCHANGED <<problems, laddered, drifted, requests, faults>>

deleteTopic(c) ==
    /\ api[c].pc = "deleteTopic"
    /\ topics' = [topics EXCEPT ![api[c].topic] = TopicIn("deleted")]
    /\ Answer(c)
    /\ UNCHANGED <<problems, laddered, drifted, requests, faults>>

-----------------------------------------------------------------------------
(* Problems.                                                                *)

createProblem(c) ==
    /\ "createProblem" \in Ops /\ api[c].pc = "idle"
    /\ \E p \in Problems, t \in Topics \union {NoTopic}, done \in BOOLEAN :
        /\ problems[p].state = "unborn"
        /\ \A q \in Problems : q < p => problems[q].state # "unborn"
        /\ t # NoTopic => topics[t].state # "unborn"
        /\ problems' = [problems EXCEPT
             ![p] = [state |-> "stored", topicId |-> t, isCompleted |-> done]]
        /\ api' = [Outdate(api, {t}) EXCEPT
             ![c] = IF done THEN ScheduleOf(p, t) ELSE SyncOf(t)]
    /\ UNCHANGED <<topics, laddered, drifted, requests, faults>>

\* getProblem of updateProblem; the topic is the one the update moves the problem to.
BeginUpdateProblem(c) ==
    /\ \E p \in Problems, status \in {"keep", "open", "completed"}, to \in Topics \union {NoTopic} :
        /\ problems[p].state = "stored"
        /\ IF to = NoTopic THEN "updateProblem" \in Ops
           ELSE "moveProblem" \in Ops /\ topics[to].state # "unborn"
        /\ Accept(c, [IdleRequest EXCEPT !.pc = "write", !.problem = p, !.topic = to,
                !.status = status, !.isCompleted = problems[p].isCompleted])
    /\ UNCHANGED <<topics, problems, laddered, drifted, faults>>

\* updateProblem writes the patch.  The topic the problem leaves is not counted again.
WriteProblem(c) ==
    LET request == api[c]
        before == problems[request.problem]
        to == IF request.topic = NoTopic THEN before.topicId ELSE request.topic IN
    /\ request.pc = "write"
    /\ \/ /\ before.state = "stored"
          /\ problems' = [problems EXCEPT ![request.problem].topicId = to,
                 ![request.problem].isCompleted = IF request.status = "keep" THEN @
                                                  ELSE request.status = "completed"]
          /\ api' = [Outdate(api, {before.topicId, to}) EXCEPT ![c] = [request EXCEPT !.pc = "reread"]]
          /\ drifted' = IF to = before.topicId THEN drifted ELSE drifted \union {before.topicId}
       \/ before.state # "stored" /\ Answer(c) /\ UNCHANGED <<problems, drifted>>
    /\ UNCHANGED <<topics, laddered, requests, faults>>

\* Slip: becomingCompleted is worked out on the copy that was read back.
RereadProblemLate(c) ==
    LET request == api[c]
        updated == problems[request.problem] IN
    /\ request.pc = "reread"
    /\ IF updated.state # "stored" THEN Answer(c)
       ELSE Continue(c, IF request.status = "completed" /\ ~updated.isCompleted
                        THEN ScheduleOf(request.problem, updated.topicId)
                        ELSE SyncOf(updated.topicId))
    /\ UNCHANGED <<topics, problems, laddered, drifted, requests, faults>>

\* What update read back tells which topic to count; becomingCompleted is of the first read.
RereadProblem(c) ==
    LET request == api[c]
        updated == problems[request.problem] IN
    /\ request.pc = "reread"
    /\ IF updated.state # "stored" THEN Answer(c)
       ELSE Continue(c, IF request.status = "completed" /\ ~request.isCompleted
                        THEN ScheduleOf(request.problem, updated.topicId)
                        ELSE SyncOf(updated.topicId))
    /\ UNCHANGED <<topics, problems, laddered, drifted, requests, faults>>

BeginDeleteProblem(c) ==
    /\ "deleteProblem" \in Ops
    /\ \E p \in Problems :
        /\ problems[p].state = "stored"
        /\ Accept(c, [IdleRequest EXCEPT !.pc = "remove", !.problem = p,
                                           !.topic = problems[p].topicId])
    /\ UNCHANGED <<topics, problems, laddered, drifted, faults>>

\* Slip: the topic is not counted again when a problem is deleted.
RemoveProblemOnly(c) ==
    /\ api[c].pc = "remove"
    /\ problems' = [problems EXCEPT ![api[c].problem] = ProblemIn("deleted")]
    /\ api' = [Outdate(api, {problems[api[c].problem].topicId}) EXCEPT ![c] = IdleRequest]
    /\ UNCHANGED <<topics, laddered, drifted, requests, faults>>

\* The recount is of the topic that was read, which the problem may have left since.
RemoveProblem(c) ==
    LET p == api[c].problem IN
    /\ api[c].pc = "remove"
    /\ problems' = [problems EXCEPT ![p] = ProblemIn("deleted")]
    /\ api' = [Outdate(api, {problems[p].topicId}) EXCEPT ![c] = SyncOf(api[c].topic)]
    /\ drifted' = IF problems[p].topicId = api[c].topic \/ problems[p].state = "deleted"
                  THEN drifted ELSE drifted \union {problems[p].topicId}
    /\ UNCHANGED <<topics, laddered, requests, faults>>

-----------------------------------------------------------------------------
(* The ladder and the recount.                                              *)

\* scheduleRevisions, for a topic (problem = 0) or a problem, whose topic is counted next.
ScheduleLadder(c) ==
    LET request == api[c] IN
    /\ request.pc = "schedule"
    /\ laddered' = laddered \union
         {IF request.problem = 0 THEN <<"topic", request.topic>> ELSE <<"problem", request.problem>>}
    /\ Continue(c, IF request.problem = 0 THEN IdleRequest ELSE SyncOf(request.topic))
    /\ UNCHANGED <<topics, problems, drifted, requests, faults>>

FindTopic(c) ==
    /\ api[c].pc = "findTopic"
    /\ Continue(c, IF topics[api[c].topic].state = "stored" THEN [api[c] EXCEPT !.pc = "count"]
                   ELSE IdleRequest)
    /\ UNCHANGED <<topics, problems, laddered, drifted, requests, faults>>

\* Slip: the completed problems are counted over all topics.
CountProblemsAnywhere(c) ==
    LET t == api[c].topic IN
    /\ api[c].pc = "count"
    /\ Continue(c, [api[c] EXCEPT !.pc = "writeCounts", !.fresh = TRUE,
            !.total = Cardinality(countByTopic(t)),
            !.completed = Cardinality({p \in Problems :
                problems[p].state = "stored" /\ problems[p].isCompleted})])
    /\ UNCHANGED <<topics, problems, laddered, drifted, requests, faults>>

CountProblems(c) ==
    LET t == api[c].topic IN
    /\ api[c].pc = "count"
    /\ Continue(c, [api[c] EXCEPT !.pc = "writeCounts", !.fresh = TRUE,
            !.total = Cardinality(countByTopic(t)), !.completed = Cardinality(CompletedOf(t))])
    /\ UNCHANGED <<topics, problems, laddered, drifted, requests, faults>>

WriteCountsTo(t, request) ==
    topics' = [topics EXCEPT ![t].totalProblems = request.total,
        ![t].completedProblems = request.completed,
        ![t].progress = Percent(request.completed, request.total)]

\* Slip: the counts are set, which creates the topic again when it is gone.
WriteCountsUpsert(c) ==
    LET t == api[c].topic IN
    /\ api[c].pc = "writeCounts"
    /\ topics' = [topics EXCEPT ![t] =
         [state |-> "stored", totalProblems |-> api[c].total, completedProblems |-> api[c].completed,
          progress |-> Percent(api[c].completed, api[c].total), isCompleted |-> @.isCompleted]]
    /\ drifted' = IF api[c].fresh THEN drifted \ {t} ELSE drifted \union {t}
    /\ Answer(c)
    /\ UNCHANGED <<problems, laddered, requests, faults>>

\* update of the topic: counts that are outdated by now are written all the same.
WriteCounts(c) ==
    LET t == api[c].topic IN
    /\ api[c].pc = "writeCounts"
    /\ IF topics[t].state = "stored"
       THEN /\ WriteCountsTo(t, api[c])
            /\ drifted' = IF api[c].fresh THEN drifted \ {t} ELSE drifted \union {t}
       ELSE UNCHANGED <<topics, drifted>>
    /\ Answer(c)
    /\ UNCHANGED <<problems, laddered, requests, faults>>

\* A request that still has to count; the ladder of a topic is the end of its request.
Counting(request) ==
    \/ request.pc \in {"reread", "findTopic", "count", "writeCounts"}
    \/ request.pc = "schedule" /\ request.problem # 0

\* An await of a request rejects (asyncHandler): what was written stays.
RequestFails(c) ==
    /\ api[c].pc # "idle" /\ faults < MaxFaults
    /\ faults' = faults + 1
    /\ drifted' = IF ~Counting(api[c]) THEN drifted
                  ELSE drifted \union (IF api[c].pc = "reread" THEN {problems[api[c].problem].topicId}
                                       ELSE {api[c].topic})
    /\ Answer(c)
    /\ UNCHANGED <<topics, problems, laddered, requests>>

-----------------------------------------------------------------------------

Next ==
    \E c \in Clients :
        \/ createTopic(c)
        \/ \E t \in Topics :
             \/ ReadTopic(c, t, "updateTopic", "edit")
             \/ ReadTopic(c, t, "completeTopic", "completeTopic")
             \/ ReadTopic(c, t, "deleteTopic", "deleteTopic")
        \/ updateTopic(c) \/ completeTopic(c) \/ deleteTopic(c)
        \/ createProblem(c)
        \/ BeginUpdateProblem(c) \/ WriteProblem(c) \/ RereadProblem(c)
        \/ BeginDeleteProblem(c) \/ RemoveProblem(c)
        \/ ScheduleLadder(c) \/ FindTopic(c) \/ CountProblems(c) \/ WriteCounts(c)
        \/ RequestFails(c)

Spec == Init /\ [][Next]_vars

-----------------------------------------------------------------------------
(* Properties.                                                              *)

\* The records keep their shape.  The part with content: no recount writes more completed
\* problems than there are, so the progress of a card is a percentage.
TypeOK ==
    /\ topics \in [Topics -> DsaTopic]
    /\ problems \in [Problems -> DsaProblem]
    /\ laddered \subseteq ({"topic"} \X Topics) \union ({"problem"} \X Problems)
    /\ api \in [Clients -> Request]
    /\ drifted \subseteq Topics \union {NoTopic}
    /\ requests \in 0 .. MaxRequests /\ faults \in 0 .. MaxFaults

Exact(t) ==
    /\ topics[t].totalProblems = Cardinality(countByTopic(t))
    /\ topics[t].completedProblems = Cardinality(CompletedOf(t))

WillCount(c, t) ==
    /\ Counting(api[c])
    /\ t = IF api[c].pc = "reread" THEN problems[api[c].problem].topicId ELSE api[c].topic

\* The denormalised counts of a topic are those of its problems, or a request is about to
\* count, or the counts drifted in one of the ways the code has: a recount that another
\* request outdated, a problem that was moved away, a request that failed.
CountsExplained ==
    \A t \in Topics :
        topics[t].state = "stored" =>
            Exact(t) \/ t \in drifted \/ \E c \in Clients : WillCount(c, t)

\* Every completed problem has got a revision ladder, or the request that completed it is
\* about to schedule it, however completions, reopenings and deletions interleave.
CompletedHasLadder ==
    faults = 0 =>
        \A p \in Problems :
            problems[p].state = "stored" /\ problems[p].isCompleted =>
                \/ <<"problem", p>> \in laddered
                \/ \E c \in Clients : api[c].problem = p /\ api[c].pc \in {"reread", "schedule"}

\* A recount, an edit or a completion that was under way when a topic was deleted does not
\* bring it back.
TopicStaysDeleted ==
    [][\A t \in Topics : topics[t].state = "deleted" => topics'[t].state = "deleted"]_vars

=============================================================================
