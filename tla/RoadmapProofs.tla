--------------------------- MODULE RoadmapProofs ---------------------------
(***************************************************************************)
(* What holds of the roadmap for every number of clients, topics, problems *)
(* and failures.                                                           *)
(*                                                                         *)
(* None of the properties is inductive.  The counts of a topic are those   *)
(* of its problems only because a recount that nobody outdated still holds *)
(* the right numbers (RecountsFit), and because nothing refers to a topic  *)
(* before it is stored (RefersOk).  A completed problem gets its ladder    *)
(* only because a request that found it completed already, and therefore   *)
(* schedules none, found it planned (CompletedWasPlanned).                 *)
(***************************************************************************)
EXTENDS Roadmap, FiniteSetTheorems, TLAPS

\* What a request carries fits the step it is at.
Fits(request) ==
    /\ request.pc \in {"edit", "completeTopic", "deleteTopic", "findTopic", "count", "writeCounts"} =>
           request.topic \in Topics
    /\ request.pc \in {"write", "reread", "remove"} => request.problem \in Problems
    /\ request.pc = "schedule" /\ request.problem = 0 => request.topic \in Topics
    /\ request.completed <= request.total

RequestsFit == \A c \in Clients : Fits(api[c])

\* Requests and problems refer to documents that were created, and only a stored problem
\* has a topic.
RefersOk ==
    /\ \A c \in Clients :
        /\ api[c].pc \in {"write", "reread", "remove"} => problems[api[c].problem].state # "unborn"
        /\ api[c].pc = "write" /\ api[c].topic # NoTopic => topics[api[c].topic].state # "unborn"
    /\ \A p \in Problems :
        IF problems[p].state = "stored"
        THEN problems[p].topicId # NoTopic => topics[problems[p].topicId].state # "unborn"
        ELSE problems[p].topicId = NoTopic

\* Counts that are about to be written, and that no change has outdated, are right.
RecountsFit ==
    \A c \in Clients :
        api[c].pc = "writeCounts" /\ api[c].fresh =>
            /\ api[c].total = Cardinality(countByTopic(api[c].topic))
            /\ api[c].completed = Cardinality(CompletedOf(api[c].topic))

\* The request will schedule the ladder of problem p, if nothing fails.
Obliged(request, p) ==
    /\ request.problem = p
    /\ \/ request.pc = "schedule"
       \/ request.pc = "reread" /\ request.status = "completed" /\ ~request.isCompleted

Planned(p) == <<"problem", p>> \in laddered \/ \E c \in Clients : Obliged(api[c], p)

CompletedIsPlanned ==
    faults = 0 =>
        \A p \in Problems : problems[p].state = "stored" /\ problems[p].isCompleted => Planned(p)

\* A request that found its problem completed need not schedule a ladder.
CompletedWasPlanned ==
    faults = 0 =>
        \A c \in Clients :
            api[c].pc \in {"write", "reread"} /\ api[c].isCompleted =>
                Planned(api[c].problem) \/ problems[api[c].problem].state = "deleted"

IInv ==
    /\ TypeOK /\ RequestsFit /\ RefersOk /\ RecountsFit
    /\ CountsExplained /\ CompletedIsPlanned /\ CompletedWasPlanned

-----------------------------------------------------------------------------
(* The numbers.                                                             *)

\* The rounded share of a part is a percentage.
LEMMA PercentBounds ==
    ASSUME NEW part \in Nat, NEW whole \in Nat, part <= whole
    PROVE  Percent(part, whole) \in 0 .. 100
<1>1. CASE whole = 0
  BY <1>1 DEF Percent
<1>2. CASE whole # 0
  <2>. DEFINE a == 200 * part + whole
              b == 2 * whole
  <2>1. a \in Nat /\ b \in Nat \ {0} /\ a < 101 * b
    BY <1>2
  <2>. HIDE DEF a, b
  <2>2. a \div b \in Int /\ 0 <= a \div b
    BY <2>1
  <2>3. b * (a \div b) <= a
    BY <2>1
  <2>4. a \div b <= 100
    BY <2>1, <2>2, <2>3
  <2>. QED BY <1>2, <2>2, <2>4 DEF Percent, a, b
<1>. QED BY <1>1, <1>2

\* A topic has at most all problems, and at most all of its problems completed.
LEMMA CountBounds ==
    ASSUME NEW t
    PROVE  /\ Cardinality(countByTopic(t)) \in 0 .. MaxProblems
           /\ Cardinality(CompletedOf(t)) \in 0 .. MaxProblems
           /\ Cardinality(CompletedOf(t)) <= Cardinality(countByTopic(t))
<1>1. IsFiniteSet(Problems) /\ Cardinality(Problems) = MaxProblems
  BY FS_Interval, ConstantsAssumption DEF Problems
<1>2. /\ IsFiniteSet(countByTopic(t))
      /\ Cardinality(countByTopic(t)) <= MaxProblems
  BY <1>1, FS_Subset DEF countByTopic
<1>3. /\ IsFiniteSet(CompletedOf(t))
      /\ Cardinality(CompletedOf(t)) <= Cardinality(countByTopic(t))
  BY <1>2, FS_Subset DEF CompletedOf
<1>. QED BY <1>2, <1>3, FS_CardinalityType, ConstantsAssumption

\* A topic none of whose problems a step touches keeps its counts.
LEMMA CountsKept ==
    ASSUME NEW t,
           \A p \in Problems :
               \/ problems'[p] = problems[p]
               \/ /\ ~(problems[p].state = "stored" /\ problems[p].topicId = t)
                  /\ ~(problems'[p].state = "stored" /\ problems'[p].topicId = t)
    PROVE  countByTopic(t)' = countByTopic(t) /\ CompletedOf(t)' = CompletedOf(t)
<1>1. countByTopic(t)' = countByTopic(t)
  BY DEF countByTopic
<1>. QED BY <1>1 DEF CompletedOf, countByTopic

-----------------------------------------------------------------------------
(* The values the handlers start from and compute.                          *)

LEMMA InitialRecords ==
    /\ TopicIn("unborn") \in DsaTopic /\ TopicIn("stored") \in DsaTopic /\ TopicIn("deleted") \in DsaTopic
    /\ ProblemIn("unborn") \in DsaProblem /\ ProblemIn("deleted") \in DsaProblem
    /\ IdleRequest \in Request /\ Fits(IdleRequest)
  BY ConstantsAssumption
     DEF TopicIn, ProblemIn, IdleRequest, DsaTopic, DsaProblem, DocStates, Request, Fits, Topics, Problems, NoTopic

\* The requests a handler goes on with.
LEMMA FollowUps ==
    /\ \A t \in Topics \union {NoTopic} : SyncOf(t) \in Request /\ Fits(SyncOf(t))
    /\ \A p \in Problems, t \in Topics \union {NoTopic} :
         ScheduleOf(p, t) \in Request /\ Fits(ScheduleOf(p, t))
    /\ \A t \in Topics : ScheduleOf(0, t) \in Request /\ Fits(ScheduleOf(0, t))
<1>. USE ConstantsAssumption, InitialRecords DEF Topics, Problems, NoTopic
<1>1. ASSUME NEW t \in Topics \union {NoTopic}
      PROVE  SyncOf(t) \in Request /\ Fits(SyncOf(t))
  <2>1. CASE t = NoTopic
    BY <2>1 DEF SyncOf
  <2>2. CASE t # NoTopic
    <3>1. SyncOf(t) = [IdleRequest EXCEPT !.pc = "findTopic", !.topic = t]
      BY <2>2 DEF SyncOf
    <3>2. t \in Topics
      BY <2>2
    <3>. QED BY <3>1, <3>2, ZenonT(60) DEF IdleRequest, Request, Fits
  <2>. QED BY <2>1, <2>2
<1>2. ASSUME NEW p \in 0 .. MaxProblems, NEW t \in Topics \union {NoTopic},
             p = 0 => t \in Topics
      PROVE  ScheduleOf(p, t) \in Request /\ Fits(ScheduleOf(p, t))
  BY <1>2 DEF ScheduleOf, IdleRequest, Request, Fits
<1>3. Problems \subseteq 0 .. MaxProblems /\ 0 \notin Problems /\ 0 \in 0 .. MaxProblems
  OBVIOUS
<1>. QED BY <1>1, <1>2, <1>3

-----------------------------------------------------------------------------
(* The invariant holds at the start.                                        *)

LEMMA InitInvariant == Init => IInv
<1>. SUFFICES ASSUME Init PROVE IInv
  OBVIOUS
<1>. USE DEF Init
<1>1. TypeOK
  BY InitialRecords, ConstantsAssumption DEF TypeOK
<1>2. RequestsFit
  BY InitialRecords DEF RequestsFit
<1>3. RefersOk /\ RecountsFit
  BY DEF RefersOk, RecountsFit, IdleRequest, ProblemIn
<1>4. CountsExplained
  BY DEF CountsExplained, TopicIn
<1>5. CompletedIsPlanned /\ CompletedWasPlanned
  BY DEF CompletedIsPlanned, CompletedWasPlanned, IdleRequest, ProblemIn
<1>. QED BY <1>1, <1>2, <1>3, <1>4, <1>5 DEF IInv

-----------------------------------------------------------------------------
(* Steps that change no problem.                                            *)

\* What the writes of a topic leave: no topic becomes unborn again.
TopicsKept ==
    /\ topics' \in [Topics -> DsaTopic]
    /\ \A t \in Topics : topics[t].state # "unborn" => topics'[t].state # "unborn"

\* The counts of topic t are explained after a step of client c, by what the client did
\* or by what explained them before.
StillExplained(c, t) ==
    topics'[t].state = "stored" =>
        \/ Exact(t)' \/ t \in drifted' \/ WillCount(c, t)'
        \/ /\ topics[t].state = "stored" /\ ~WillCount(c, t)
           /\ topics'[t].totalProblems = topics[t].totalProblems
           /\ topics'[t].completedProblems = topics[t].completedProblems
           /\ t \in drifted => t \in drifted'

\* A request q fits the documents.
FitsDocuments(q) ==
    /\ q.pc \in {"write", "reread", "remove"} => problems[q.problem].state # "unborn"
    /\ q.pc = "write" /\ q.topic # NoTopic => topics'[q.topic].state # "unborn"
    /\ q.pc = "writeCounts" =>
        /\ q.total = Cardinality(countByTopic(q.topic))
        /\ q.completed = Cardinality(CompletedOf(q.topic))

\* The ladders that client c was obliged to schedule are kept by q, and q need not
\* schedule the one it leaves out.
StillPlanned(c, q) ==
    faults' = 0 =>
        /\ faults = 0
        /\ \A p \in Problems : Obliged(api[c], p) =>
            Obliged(q, p) \/ <<"problem", p>> \in laddered' \/ problems[p].state = "deleted"
        /\ q.pc \in {"write", "reread"} /\ q.isCompleted =>
            Planned(q.problem) \/ problems[q.problem].state = "deleted"

\* A request that goes on from what it is to q keeps the invariant when q fits the
\* documents, and when what the request was about to do is done or still going to be done.
LEMMA RequestStep ==
    ASSUME IInv, NEW c \in Clients, NEW q \in Request, Continue(c, q), Fits(q),
           problems' = problems, TopicsKept,
           drifted' \subseteq Topics \union {NoTopic},
           requests' \in 0 .. MaxRequests, faults' \in 0 .. MaxFaults,
           laddered \subseteq laddered',
           laddered' \subseteq ({"topic"} \X Topics) \union ({"problem"} \X Problems),
           FitsDocuments(q), \A t \in Topics : StillExplained(c, t), StillPlanned(c, q)
    PROVE  IInv'
<1>1. \A d \in Clients : api'[d] = IF d = c THEN q ELSE api[d]
  BY DEF IInv, TypeOK, Continue
<1>2. TypeOK'
  BY DEF IInv, TypeOK, Continue, TopicsKept
<1>3. RequestsFit'
  BY <1>1 DEF IInv, RequestsFit, Fits
<1>4. RefersOk'
  <2>1. \A d \in Clients : api[d].topic \in Topics \union {NoTopic}
    BY DEF IInv, TypeOK, Request
  <2>2. \A p \in Problems : problems[p].topicId \in Topics \union {NoTopic}
    BY DEF IInv, TypeOK, DsaProblem
  <2>3. q.topic \in Topics \union {NoTopic}
    BY DEF Request
  <2>. QED BY <1>1, <2>1, <2>2, <2>3 DEF IInv, RefersOk, TopicsKept, FitsDocuments
<1>5. \A t : countByTopic(t)' = countByTopic(t) /\ CompletedOf(t)' = CompletedOf(t)
  BY CountsKept
<1>6. RecountsFit'
  BY <1>1, <1>5 DEF IInv, RecountsFit, FitsDocuments
<1>7. CountsExplained'
  <2>1. \A d \in Clients \ {c}, t \in Topics : WillCount(d, t) => WillCount(d, t)'
    BY <1>1 DEF WillCount, Counting
  <2>. SUFFICES ASSUME NEW t \in Topics, topics'[t].state = "stored"
                PROVE  Exact(t)' \/ t \in drifted' \/ \E d \in Clients : WillCount(d, t)'
    BY DEF CountsExplained
  <2>. QED BY <1>5, <2>1 DEF IInv, CountsExplained, Exact, StillExplained
<1>8. faults' = 0 => \A p \in Problems : Planned(p) => Planned(p)' \/ problems[p].state = "deleted"
  BY <1>1 DEF Planned, StillPlanned
<1>9. CompletedIsPlanned'
  BY <1>8 DEF IInv, CompletedIsPlanned, StillPlanned
<1>10. CompletedWasPlanned'
  <2>1. \A d \in Clients : api[d].pc \in {"write", "reread"} => api[d].problem \in Problems
    BY DEF IInv, RequestsFit, Fits
  <2>2. q.pc \in {"write", "reread"} => q.problem \in Problems
    BY DEF Fits
  <2>. QED BY <1>1, <1>8, <2>1, <2>2 DEF IInv, CompletedWasPlanned, StillPlanned
<1>. QED BY <1>2, <1>3, <1>4, <1>6, <1>7, <1>9, <1>10 DEF IInv

\* A request that has nothing left to do for a problem, or a count, may be answered.
LEMMA AnswerStep ==
    ASSUME IInv, NEW c \in Clients, Answer(c), problems' = problems, TopicsKept,
           drifted' \subseteq Topics \union {NoTopic},
           UNCHANGED <<laddered, requests>>, faults' \in 0 .. MaxFaults,
           \A t \in Topics : StillExplained(c, t),
           faults' = 0 => faults = 0 /\ \A p \in Problems : ~Obliged(api[c], p)
    PROVE  IInv'
<1>1. IdleRequest \in Request /\ Fits(IdleRequest) /\ IdleRequest.pc = "idle"
  BY InitialRecords DEF IdleRequest
<1>2. FitsDocuments(IdleRequest) /\ StillPlanned(c, IdleRequest)
  BY <1>1 DEF FitsDocuments, StillPlanned
<1>3. /\ requests' \in 0 .. MaxRequests
      /\ laddered' = laddered
      /\ laddered' \subseteq ({"topic"} \X Topics) \union ({"problem"} \X Problems)
  BY DEF IInv, TypeOK
<1>. QED BY <1>1, <1>2, <1>3, RequestStep DEF Answer, Continue

LEMMA CreateTopicKeeps ==
    ASSUME IInv, NEW c \in Clients, createTopic(c)
    PROVE  IInv'
<1>. DEFINE q == api[c]
<1>1. q \in Request /\ Fits(q) /\ Continue(c, q)
  BY DEF IInv, TypeOK, RequestsFit, Continue, createTopic
<1>2. PICK t \in Topics : /\ topics[t].state = "unborn"
                          /\ topics' = [topics EXCEPT ![t] = TopicIn("stored")]
  BY DEF createTopic
<1>3. TopicsKept /\ FitsDocuments(q)
  BY <1>2, InitialRecords DEF IInv, TypeOK, TopicsKept, TopicIn, FitsDocuments, createTopic
<1>4. \A s \in Topics : StillExplained(c, s)
  <2>1. countByTopic(t)' = {} /\ CompletedOf(t)' = {}
    BY <1>2, ConstantsAssumption
       DEF IInv, RefersOk, countByTopic, CompletedOf, createTopic, Topics, NoTopic
  <2>2. Exact(t)'
    BY <1>2, <2>1, FS_EmptySet DEF Exact, IInv, TypeOK, TopicIn
  <2>3. ASSUME NEW s \in Topics \ {t} PROVE topics'[s] = topics[s]
    BY <1>2 DEF IInv, TypeOK
  <2>4. ~\E s \in Topics : WillCount(c, s)
    BY DEF createTopic, WillCount, Counting
  <2>. QED BY <2>2, <2>3, <2>4 DEF StillExplained, createTopic
<1>5. StillPlanned(c, q)
  BY DEF createTopic, StillPlanned
<1>. QED BY <1>1, <1>3, <1>4, <1>5, RequestStep DEF IInv, TypeOK, createTopic

LEMMA ReadTopicKeeps ==
    ASSUME IInv, NEW c \in Clients, NEW t \in Topics,
           NEW op, NEW pc \in {"edit", "completeTopic", "deleteTopic"}, ReadTopic(c, t, op, pc)
    PROVE  IInv'
<1>. DEFINE q == [IdleRequest EXCEPT !.pc = pc, !.topic = t,
                                       !.isCompleted = topics[t].isCompleted]
<1>1. q \in Request /\ Fits(q)
  BY InitialRecords DEF IInv, TypeOK, DsaTopic, IdleRequest, Request, Fits
<1>2. q.pc = pc /\ Continue(c, q) /\ requests' \in 0 .. MaxRequests
  BY ConstantsAssumption DEF ReadTopic, Accept, IInv, TypeOK, IdleRequest
<1>. HIDE DEF q
<1>3. TopicsKept /\ FitsDocuments(q) /\ StillPlanned(c, q)
  BY <1>2 DEF IInv, TypeOK, TopicsKept, FitsDocuments, StillPlanned, ReadTopic, Accept, Obliged
<1>4. \A s \in Topics : StillExplained(c, s)
  BY DEF StillExplained, ReadTopic, Accept, WillCount, Counting
<1>. QED BY <1>1, <1>2, <1>3, <1>4, RequestStep DEF IInv, TypeOK, ReadTopic

\* A write to topic t that sets neither its counts nor its state.
TopicPatched(t, new) ==
    /\ new \in DsaTopic /\ new.state = topics[t].state
    /\ new.totalProblems = topics[t].totalProblems
    /\ new.completedProblems = topics[t].completedProblems

LEMMA PatchKeepsCounts ==
    ASSUME IInv, NEW c \in Clients, NEW t \in Topics, NEW new, TopicPatched(t, new),
           topics' = [topics EXCEPT ![t] = new], drifted' = drifted,
           \A s \in Topics : ~WillCount(c, s)
    PROVE  TopicsKept /\ \A s \in Topics : StillExplained(c, s)
<1>1. \A s \in Topics : topics'[s] = IF s = t THEN new ELSE topics[s]
  BY DEF IInv, TypeOK
<1>2. TopicsKept
  BY <1>1 DEF IInv, TypeOK, TopicsKept, TopicPatched
<1>3. \A s \in Topics : StillExplained(c, s)
  BY <1>1 DEF StillExplained, TopicPatched
<1>. QED BY <1>2, <1>3

\* An edit, a completion or a deletion leaves the counts of its topic alone.
LEMMA UpdateTopicKeeps ==
    ASSUME IInv, NEW c \in Clients, updateTopic(c)
    PROVE  IInv'
<1>. DEFINE t == api[c].topic
<1>1. api[c].pc = "edit" /\ t \in Topics /\ topics[t] \in DsaTopic
  BY DEF updateTopic, IInv, TypeOK, RequestsFit, Fits
<1>2. (\A s \in Topics : ~WillCount(c, s)) /\ (\A p \in Problems : ~Obliged(api[c], p))
  BY <1>1 DEF WillCount, Counting, Obliged
<1>3. PICK new : TopicPatched(t, new) /\ topics' = [topics EXCEPT ![t] = new]
  <2>1. CASE topics[t].state = "stored"
    <3>1. PICK progress \in Progresses : topics' = [topics EXCEPT ![t].progress = progress]
      BY <2>1 DEF updateTopic
    <3>2. progress \in 0 .. 100
      BY ConstantsAssumption
    <3>3. TopicPatched(t, [topics[t] EXCEPT !.progress = progress])
      BY <1>1, <3>2 DEF TopicPatched, DsaTopic
    <3>. QED BY <3>1, <3>3
  <2>2. CASE topics[t].state # "stored"
    <3>1. TopicPatched(t, topics[t]) /\ topics' = [topics EXCEPT ![t] = topics[t]]
      BY <1>1, <2>2 DEF TopicPatched, updateTopic, IInv, TypeOK
    <3>. QED BY <3>1
  <2>. QED BY <2>1, <2>2
<1>4. TopicsKept /\ \A s \in Topics : StillExplained(c, s)
  BY <1>1, <1>2, <1>3, PatchKeepsCounts DEF updateTopic
<1>. QED BY <1>2, <1>4, AnswerStep DEF updateTopic, IInv, TypeOK

LEMMA DeleteTopicKeeps ==
    ASSUME IInv, NEW c \in Clients, deleteTopic(c)
    PROVE  IInv'
<1>. USE DEF deleteTopic
<1>1. api[c].topic \in Topics
  BY DEF IInv, RequestsFit, Fits
<1>2. TopicsKept
  BY <1>1, InitialRecords DEF IInv, TypeOK, TopicsKept, TopicIn
<1>3. \A t \in Topics : StillExplained(c, t)
  BY <1>1 DEF IInv, TypeOK, TopicIn, StillExplained, WillCount, Counting
<1>4. \A p \in Problems : ~Obliged(api[c], p)
  BY DEF Obliged
<1>. QED BY <1>2, <1>3, <1>4, AnswerStep DEF IInv, TypeOK

LEMMA CompleteTopicKeeps ==
    ASSUME IInv, NEW c \in Clients, completeTopic(c)
    PROVE  IInv'
<1>. DEFINE t == api[c].topic
<1>1. api[c].pc = "completeTopic" /\ t \in Topics /\ topics[t] \in DsaTopic
  BY DEF completeTopic, IInv, TypeOK, RequestsFit, Fits
<1>2. (\A s \in Topics : ~WillCount(c, s)) /\ (\A p \in Problems : ~Obliged(api[c], p))
  BY <1>1 DEF WillCount, Counting, Obliged
<1>3. PICK new : TopicPatched(t, new) /\ topics' = [topics EXCEPT ![t] = new]
  <2>1. CASE topics[t].state = "stored"
    <3>1. topics' = [topics EXCEPT ![t] = [topics[t] EXCEPT !.isCompleted = TRUE, !.progress = 100]]
      BY <1>1, <2>1 DEF completeTopic, IInv, TypeOK, DsaTopic
    <3>. DEFINE new == [topics[t] EXCEPT !.isCompleted = TRUE, !.progress = 100]
    <3>2. new \in DsaTopic
      BY <1>1, TRUE \in BOOLEAN, 100 \in 0 .. 100 DEF DsaTopic
    <3>3. TopicPatched(t, new)
      BY <1>1, <3>2 DEF TopicPatched, DsaTopic
    <3>. QED BY <3>1, <3>3
  <2>2. CASE topics[t].state # "stored"
    <3>1. TopicPatched(t, topics[t]) /\ topics' = [topics EXCEPT ![t] = topics[t]]
      BY <1>1, <2>2 DEF TopicPatched, completeTopic, IInv, TypeOK
    <3>. QED BY <3>1
  <2>. QED BY <2>1, <2>2
<1>4. TopicsKept /\ \A s \in Topics : StillExplained(c, s)
  BY <1>1, <1>2, <1>3, PatchKeepsCounts DEF completeTopic
<1>5. CASE Answer(c)
  BY <1>2, <1>4, <1>5, AnswerStep DEF completeTopic, IInv, TypeOK
<1>6. CASE Continue(c, ScheduleOf(0, t))
  <2>1. ScheduleOf(0, t) \in Request /\ Fits(ScheduleOf(0, t))
    BY <1>1, FollowUps
  <2>2. FitsDocuments(ScheduleOf(0, t)) /\ StillPlanned(c, ScheduleOf(0, t))
    BY <1>2 DEF completeTopic, FitsDocuments, StillPlanned, ScheduleOf, IdleRequest
  <2>. QED BY <1>4, <1>6, <2>1, <2>2, RequestStep DEF completeTopic, IInv, TypeOK
<1>. QED BY <1>5, <1>6 DEF completeTopic

\* What the handlers of a problem read first.
LEMMA ProblemRequest ==
    ASSUME NEW pc \in {"write", "remove"}, NEW p \in Problems, NEW t \in Topics \union {NoTopic},
           NEW status \in {"keep", "open", "completed"}, NEW done \in BOOLEAN
    PROVE  LET q == [IdleRequest EXCEPT !.pc = pc, !.problem = p, !.topic = t,
                                          !.status = status, !.isCompleted = done]
           IN q \in Request /\ Fits(q)
<1>. DEFINE q == [IdleRequest EXCEPT !.pc = pc, !.problem = p, !.topic = t,
                                     !.status = status, !.isCompleted = done]
<1>1. p \in 0 .. MaxProblems /\ 0 \in 0 .. MaxProblems
  BY ConstantsAssumption DEF Problems
<1>2. q \in Request
  BY <1>1 DEF IdleRequest, Request
<1>3. Fits(q)
  BY DEF IdleRequest, Fits
<1>. QED BY <1>2, <1>3

LEMMA BeginUpdateProblemKeeps ==
    ASSUME IInv, NEW c \in Clients, BeginUpdateProblem(c)
    PROVE  IInv'
<1>1. PICK p \in Problems, status \in {"keep", "open", "completed"}, to \in Topics \union {NoTopic} :
        /\ problems[p].state = "stored"
        /\ to # NoTopic => topics[to].state # "unborn"
        /\ Accept(c, [IdleRequest EXCEPT !.pc = "write", !.problem = p, !.topic = to,
                !.status = status, !.isCompleted = problems[p].isCompleted])
  BY DEF BeginUpdateProblem
<1>. DEFINE q == [IdleRequest EXCEPT !.pc = "write", !.problem = p, !.topic = to,
                !.status = status, !.isCompleted = problems[p].isCompleted]
<1>2. q \in Request /\ Fits(q)
  BY <1>1, ProblemRequest DEF IInv, TypeOK, DsaProblem
<1>3. /\ q.pc = "write" /\ q.problem = p /\ q.topic = to /\ q.isCompleted = problems[p].isCompleted
      /\ Continue(c, q) /\ api[c].pc = "idle" /\ requests' \in 0 .. MaxRequests
  BY <1>1, ConstantsAssumption DEF Accept, IInv, TypeOK, IdleRequest
<1>. HIDE DEF q
<1>4. TopicsKept /\ FitsDocuments(q)
  BY <1>1, <1>3 DEF IInv, TypeOK, TopicsKept, FitsDocuments, BeginUpdateProblem
<1>5. StillPlanned(c, q)
  BY <1>1, <1>3 DEF IInv, CompletedIsPlanned, StillPlanned, Obliged, BeginUpdateProblem
<1>6. \A s \in Topics : StillExplained(c, s)
  BY <1>3 DEF StillExplained, BeginUpdateProblem, WillCount, Counting
<1>. QED BY <1>2, <1>3, <1>4, <1>5, <1>6, RequestStep DEF IInv, TypeOK, BeginUpdateProblem

LEMMA BeginDeleteProblemKeeps ==
    ASSUME IInv, NEW c \in Clients, BeginDeleteProblem(c)
    PROVE  IInv'
<1>1. PICK p \in Problems :
        /\ problems[p].state = "stored"
        /\ Accept(c, [IdleRequest EXCEPT !.pc = "remove", !.problem = p,
                                           !.topic = problems[p].topicId])
  BY DEF BeginDeleteProblem
<1>. DEFINE q == [IdleRequest EXCEPT !.pc = "remove", !.problem = p, !.topic = problems[p].topicId]
<1>2. q \in Request /\ Fits(q)
  <2>1. p \in 0 .. MaxProblems /\ 0 \in 0 .. MaxProblems /\ problems[p].topicId \in Topics \union {NoTopic}
    BY ConstantsAssumption DEF IInv, TypeOK, DsaProblem, Problems
  <2>2. q \in Request
    BY <2>1 DEF IdleRequest, Request
  <2>3. Fits(q)
    BY DEF IdleRequest, Fits
  <2>. QED BY <2>2, <2>3
<1>3. /\ q.pc = "remove" /\ q.problem = p
      /\ Continue(c, q) /\ api[c].pc = "idle" /\ requests' \in 0 .. MaxRequests
  BY <1>1, ConstantsAssumption DEF Accept, IInv, TypeOK, IdleRequest
<1>. HIDE DEF q
<1>4. TopicsKept /\ FitsDocuments(q) /\ StillPlanned(c, q)
  BY <1>1, <1>3
     DEF IInv, TypeOK, TopicsKept, FitsDocuments, StillPlanned, Obliged, BeginDeleteProblem
<1>6. \A s \in Topics : StillExplained(c, s)
  BY <1>3 DEF StillExplained, BeginDeleteProblem, WillCount, Counting
<1>. QED BY <1>2, <1>3, <1>4, <1>6, RequestStep DEF IInv, TypeOK, BeginDeleteProblem

\* The topic that the copy read back names is counted, unless the problem is gone, and a
\* ladder is left out only for a problem that was planned before.
LEMMA RereadProblemKeeps ==
    ASSUME IInv, NEW c \in Clients, RereadProblem(c)
    PROVE  IInv'
<1>. DEFINE p == api[c].problem
            t == problems[p].topicId
            schedules == api[c].status = "completed" /\ ~api[c].isCompleted
<1>1. api[c].pc = "reread" /\ p \in Problems /\ t \in Topics \union {NoTopic}
  BY DEF RereadProblem, IInv, TypeOK, DsaProblem, RequestsFit, Fits
<1>2. TopicsKept
  BY DEF RereadProblem, IInv, TypeOK, TopicsKept
<1>3. CASE problems[p].state # "stored"
  <2>1. problems[p].state = "deleted" /\ t = NoTopic
    BY <1>1, <1>3 DEF IInv, TypeOK, DsaProblem, DocStates, RefersOk
  <2>2. \A s \in Topics : ~WillCount(c, s)
    BY <1>1, <2>1 DEF WillCount, Topics, NoTopic
  <2>3. \A s \in Topics : StillExplained(c, s)
    BY <2>2 DEF RereadProblem, StillExplained
  <2>. DEFINE q == IdleRequest
  <2>4. q \in Request /\ Fits(q) /\ q.pc = "idle"
    BY InitialRecords DEF IdleRequest
  <2>5. Continue(c, q)
    BY <1>3 DEF RereadProblem, Answer, Continue
  <2>6. FitsDocuments(q) /\ StillPlanned(c, q)
    BY <2>1, <2>4 DEF RereadProblem, FitsDocuments, StillPlanned, Obliged
  <2>. QED BY <1>2, <2>3, <2>4, <2>5, <2>6, RequestStep DEF RereadProblem, IInv, TypeOK
<1>4. CASE problems[p].state = "stored" /\ schedules
  <2>. DEFINE q == ScheduleOf(p, t)
  <2>1. q \in Request /\ Fits(q)
    BY <1>1, FollowUps
  <2>2. Continue(c, q) /\ q.pc = "schedule" /\ q.problem = p /\ q.topic = t /\ p # 0
    BY <1>1, <1>4 DEF RereadProblem, ScheduleOf, IdleRequest, Problems
  <2>3. api'[c] = q
    BY <2>2 DEF Continue, IInv, TypeOK
  <2>. HIDE DEF q
  <2>4. \A s \in Topics : StillExplained(c, s)
    BY <1>1, <2>2, <2>3 DEF RereadProblem, StillExplained, WillCount, Counting
  <2>5. FitsDocuments(q) /\ StillPlanned(c, q)
    BY <1>1, <2>2 DEF RereadProblem, FitsDocuments, StillPlanned, Obliged
  <2>. QED BY <1>2, <2>1, <2>2, <2>4, <2>5, RequestStep DEF RereadProblem, IInv, TypeOK
<1>5. CASE problems[p].state = "stored" /\ ~schedules
  <2>. DEFINE q == SyncOf(t)
  <2>1. q \in Request /\ Fits(q)
    BY <1>1, FollowUps
  <2>2. /\ Continue(c, q) /\ q.pc \in {"findTopic", "idle"}
        /\ t # NoTopic => q.pc = "findTopic" /\ q.topic = t
    BY <1>1, <1>5 DEF RereadProblem, SyncOf, IdleRequest
  <2>3. api'[c] = q
    BY <2>2 DEF Continue, IInv, TypeOK
  <2>. HIDE DEF q
  <2>4. \A s \in Topics : StillExplained(c, s)
    BY <1>1, <2>2, <2>3
       DEF RereadProblem, StillExplained, WillCount, Counting, Topics, NoTopic
  <2>5. FitsDocuments(q) /\ StillPlanned(c, q)
    BY <1>1, <1>5, <2>2 DEF RereadProblem, FitsDocuments, StillPlanned, Obliged
  <2>. QED BY <1>2, <2>1, <2>2, <2>4, <2>5, RequestStep DEF RereadProblem, IInv, TypeOK
<1>. QED BY <1>3, <1>4, <1>5

LEMMA ScheduleLadderKeeps ==
    ASSUME IInv, NEW c \in Clients, ScheduleLadder(c)
    PROVE  IInv'
<1>. DEFINE p == api[c].problem
            t == api[c].topic
<1>1. /\ api[c].pc = "schedule" /\ p \in 0 .. MaxProblems /\ t \in Topics \union {NoTopic}
      /\ p = 0 => t \in Topics
  BY DEF ScheduleLadder, IInv, TypeOK, Request, RequestsFit, Fits
<1>2. TopicsKept
  BY DEF ScheduleLadder, IInv, TypeOK, TopicsKept
<1>3. CASE p = 0
  <2>. DEFINE q == IdleRequest
  <2>1. q \in Request /\ Fits(q) /\ q.pc = "idle"
    BY InitialRecords DEF IdleRequest
  <2>2. Continue(c, q) /\ laddered' = laddered \union {<<"topic", t>>}
    BY <1>3 DEF ScheduleLadder
  <2>3. \A s \in Topics : StillExplained(c, s)
    BY <1>1, <1>3 DEF ScheduleLadder, StillExplained, WillCount, Counting
  <2>4. FitsDocuments(q) /\ StillPlanned(c, q)
    BY <1>1, <1>3, <2>1, ConstantsAssumption
       DEF ScheduleLadder, FitsDocuments, StillPlanned, Obliged, Problems
  <2>. QED BY <1>1, <1>2, <1>3, <2>1, <2>2, <2>3, <2>4, RequestStep DEF ScheduleLadder, IInv, TypeOK
<1>4. CASE p # 0
  <2>. DEFINE q == SyncOf(t)
  <2>1. q \in Request /\ Fits(q) /\ p \in Problems
    BY <1>1, <1>4, FollowUps, ConstantsAssumption DEF Problems
  <2>2. /\ Continue(c, q) /\ laddered' = laddered \union {<<"problem", p>>}
        /\ q.pc \in {"findTopic", "idle"}
        /\ t # NoTopic => q.pc = "findTopic" /\ q.topic = t
    BY <1>4 DEF ScheduleLadder, SyncOf, IdleRequest
  <2>3. api'[c] = q
    BY <2>2 DEF Continue, IInv, TypeOK
  <2>. HIDE DEF q
  <2>4. \A s \in Topics : StillExplained(c, s)
    BY <1>1, <2>2, <2>3
       DEF ScheduleLadder, StillExplained, WillCount, Counting, Topics, NoTopic
  <2>5. FitsDocuments(q) /\ StillPlanned(c, q)
    BY <1>1, <2>2 DEF ScheduleLadder, FitsDocuments, StillPlanned, Obliged
  <2>. QED BY <1>2, <2>1, <2>2, <2>4, <2>5, RequestStep DEF ScheduleLadder, IInv, TypeOK
<1>. QED BY <1>3, <1>4

LEMMA FindTopicKeeps ==
    ASSUME IInv, NEW c \in Clients, FindTopic(c)
    PROVE  IInv'
<1>. DEFINE t == api[c].topic
<1>1. api[c].pc = "findTopic" /\ t \in Topics /\ api[c] \in Request /\ Fits(api[c])
  BY DEF FindTopic, IInv, TypeOK, RequestsFit, Fits
<1>2. TopicsKept /\ \A p \in Problems : ~Obliged(api[c], p)
  BY <1>1 DEF FindTopic, IInv, TypeOK, TopicsKept, Obliged
<1>3. CASE topics[t].state = "stored"
  <2>. DEFINE q == [api[c] EXCEPT !.pc = "count"]
  <2>1. q \in Request /\ q.pc = "count" /\ q.topic = t /\ Fits(q)
    BY <1>1 DEF Request, Fits
  <2>2. Continue(c, q) /\ api'[c] = q
    BY <1>3 DEF FindTopic, Continue, IInv, TypeOK
  <2>. HIDE DEF q
  <2>3. \A s \in Topics : StillExplained(c, s)
    BY <1>1, <2>1, <2>2 DEF FindTopic, StillExplained, WillCount, Counting
  <2>4. FitsDocuments(q) /\ StillPlanned(c, q)
    BY <1>2, <2>1 DEF FindTopic, FitsDocuments, StillPlanned
  <2>. QED BY <1>2, <2>1, <2>2, <2>3, <2>4, RequestStep DEF FindTopic, IInv, TypeOK
<1>4. CASE topics[t].state # "stored"
  <2>1. \A s \in Topics : StillExplained(c, s)
    BY <1>1, <1>4 DEF FindTopic, StillExplained, WillCount, Counting
  <2>2. Answer(c)
    BY <1>4 DEF FindTopic, Answer, Continue
  <2>. QED BY <1>2, <2>1, <2>2, AnswerStep DEF FindTopic, IInv, TypeOK
<1>. QED BY <1>3, <1>4

LEMMA CountProblemsKeeps ==
    ASSUME IInv, NEW c \in Clients, CountProblems(c)
    PROVE  IInv'
<1>. DEFINE t == api[c].topic
            total == Cardinality(countByTopic(t))
            completed == Cardinality(CompletedOf(t))
            q == [api[c] EXCEPT !.pc = "writeCounts", !.fresh = TRUE,
                                !.total = total, !.completed = completed]
<1>1. api[c].pc = "count" /\ t \in Topics /\ api[c] \in Request
  BY DEF CountProblems, IInv, TypeOK, RequestsFit, Fits
<1>2. TopicsKept /\ \A p \in Problems : ~Obliged(api[c], p)
  BY <1>1 DEF CountProblems, IInv, TypeOK, TopicsKept, Obliged
<1>3. total \in 0 .. MaxProblems /\ completed \in 0 .. MaxProblems /\ completed <= total
  BY CountBounds
<1>4. Continue(c, q) /\ api'[c] = q
  BY DEF CountProblems, Continue, IInv, TypeOK
<1>. HIDE DEF total, completed
<1>5. q \in Request /\ q.pc = "writeCounts" /\ q.topic = t /\ q.total = total /\ q.completed = completed
  BY <1>1, <1>3 DEF Request
<1>. HIDE DEF q
<1>6. Fits(q) /\ FitsDocuments(q)
  BY <1>1, <1>3, <1>5 DEF Fits, FitsDocuments, total, completed
<1>7. \A s \in Topics : StillExplained(c, s)
  BY <1>1, <1>4, <1>5 DEF CountProblems, StillExplained, WillCount, Counting
<1>8. StillPlanned(c, q)
  BY <1>2, <1>5 DEF CountProblems, StillPlanned
<1>. QED BY <1>2, <1>4, <1>5, <1>6, <1>7, <1>8, RequestStep DEF CountProblems, IInv, TypeOK

\* Right counts make the topic exact; outdated ones make it drift.
LEMMA WriteCountsKeeps ==
    ASSUME IInv, NEW c \in Clients, WriteCounts(c)
    PROVE  IInv'
<1>1. PICK t \in Topics : t = api[c].topic
  BY DEF WriteCounts, IInv, RequestsFit, Fits
<1>. DEFINE total == api[c].total
            completed == api[c].completed
<1>2. /\ api[c].pc = "writeCounts" /\ total \in 0 .. MaxProblems /\ completed \in 0 .. MaxProblems
      /\ completed <= total
  BY DEF WriteCounts, IInv, TypeOK, RequestsFit, Fits, Request
<1>3. \A p \in Problems : ~Obliged(api[c], p)
  BY <1>1, <1>2 DEF Obliged
<1>4. CASE topics[t].state = "stored"
  <2>. DEFINE percent == Percent(completed, total)
              new == [topics[t] EXCEPT !.totalProblems = total,
                          !.completedProblems = completed, !.progress = percent]
  <2>0. topics[t] \in DsaTopic
    BY DEF IInv, TypeOK
  <2>1. percent \in 0 .. 100
    BY <1>2, PercentBounds, ConstantsAssumption, SMTT(30)
  <2>. HIDE DEF percent
  <2>2. topics' = [topics EXCEPT ![t] = new]
    BY <1>1, <1>2, <1>4 DEF WriteCounts, WriteCountsTo, IInv, TypeOK, DsaTopic, percent
  <2>3. /\ new \in DsaTopic /\ new.state = "stored"
        /\ new.totalProblems = total /\ new.completedProblems = completed
    BY <1>1, <1>2, <1>4, <2>0, <2>1 DEF DsaTopic
  <2>. HIDE DEF new
  <2>4. \A s \in Topics : topics'[s] = IF s = t THEN new ELSE topics[s]
    BY <2>2 DEF IInv, TypeOK
  <2>5. TopicsKept
    BY <1>1, <1>2, <2>2, <2>3, <2>4 DEF IInv, TypeOK, TopicsKept
  <2>6. drifted' = IF api[c].fresh THEN drifted \ {t} ELSE drifted \union {t}
    BY <1>1, <1>4 DEF WriteCounts
  <2>7. \A s \in Topics : s # t => StillExplained(c, s)
    BY <1>1, <1>2, <2>4, <2>6 DEF StillExplained, WillCount, Counting
  <2>8. StillExplained(c, t)
    <3>1. CASE api[c].fresh
      <4>1. countByTopic(t)' = countByTopic(t) /\ CompletedOf(t)' = CompletedOf(t)
        BY CountsKept DEF WriteCounts
      <4>2. Exact(t)'
        BY <1>1, <1>2, <2>3, <2>4, <3>1, <4>1 DEF Exact, IInv, RecountsFit
      <4>. QED BY <4>2 DEF StillExplained
    <3>2. CASE ~api[c].fresh
      BY <2>6, <3>2 DEF StillExplained
    <3>. QED BY <3>1, <3>2
  <2>9. drifted' \subseteq Topics \union {NoTopic}
    BY <1>1, <1>2, <2>6 DEF IInv, TypeOK
  <2>. QED BY <1>3, <2>5, <2>7, <2>8, <2>9, AnswerStep DEF WriteCounts, IInv, TypeOK
<1>5. CASE topics[t].state # "stored"
  <2>1. TopicsKept /\ \A s \in Topics : StillExplained(c, s)
    BY <1>1, <1>2, <1>5 DEF WriteCounts, IInv, TypeOK, TopicsKept, StillExplained, WillCount, Counting
  <2>. QED BY <1>1, <1>3, <1>5, <2>1, AnswerStep DEF WriteCounts, IInv, TypeOK
<1>. QED BY <1>4, <1>5

\* A failure leaves a count that was still to be written for good, and every promise of a
\* ladder with it.
LEMMA RequestFailsKeeps ==
    ASSUME IInv, NEW c \in Clients, RequestFails(c)
    PROVE  IInv'
<1>1. faults' \in 0 .. MaxFaults /\ faults' # 0
  BY ConstantsAssumption DEF RequestFails, IInv, TypeOK
<1>2. TopicsKept
  BY DEF RequestFails, IInv, TypeOK, TopicsKept
<1>3. drifted' \subseteq Topics \union {NoTopic}
  <2>1. /\ api[c].topic \in Topics \union {NoTopic}
        /\ api[c].pc = "reread" => problems[api[c].problem].topicId \in Topics \union {NoTopic}
    BY DEF IInv, TypeOK, RequestsFit, Fits, Request, DsaProblem
  <2>. QED BY <2>1 DEF RequestFails, IInv, TypeOK
<1>4. \A t \in Topics : StillExplained(c, t)
  BY DEF RequestFails, StillExplained, WillCount
<1>. QED BY <1>1, <1>2, <1>3, <1>4, AnswerStep DEF RequestFails

-----------------------------------------------------------------------------
(* Steps that write a problem.                                              *)

LEMMA OutdatedFits ==
    ASSUME NEW request \in Request
    PROVE  [request EXCEPT !.fresh = FALSE] \in Request
<1>1. ASSUME NEW b \in BOOLEAN PROVE [request EXCEPT !.fresh = b] \in Request
  BY DEF Request
<1>. QED BY <1>1

\* A request of another client keeps what it carries, and its counts stay fresh only if
\* the write was of other topics.
LEMMA OutdateKeeps ==
    ASSUME TypeOK, RequestsFit, NEW c \in Clients, NEW q \in Request, Fits(q), NEW ts,
           api' = [Outdate(api, ts) EXCEPT ![c] = q]
    PROVE  /\ api' \in [Clients -> Request] /\ RequestsFit' /\ api'[c] = q
           /\ \A d \in Clients \ {c} :
                /\ api'[d].pc = api[d].pc /\ api'[d].problem = api[d].problem
                /\ api'[d].topic = api[d].topic /\ api'[d].status = api[d].status
                /\ api'[d].isCompleted = api[d].isCompleted
                /\ api'[d].total = api[d].total /\ api'[d].completed = api[d].completed
                /\ api'[d].fresh => api[d].fresh /\ api[d].topic \notin ts
<1>1. ASSUME NEW d \in Clients
      PROVE  Outdate(api, ts)[d] = IF api[d].topic \in ts THEN [api[d] EXCEPT !.fresh = FALSE]
                                   ELSE api[d]
  BY DEF Outdate
<1>2. api'[c] = q
  BY DEF Outdate
<1>3. ASSUME NEW d \in Clients \ {c}
      PROVE  api'[d] = IF api[d].topic \in ts THEN [api[d] EXCEPT !.fresh = FALSE] ELSE api[d]
  BY <1>1 DEF Outdate
<1>4. ASSUME NEW d \in Clients \ {c}
      PROVE  /\ api'[d] \in Request /\ Fits(api'[d])
             /\ api'[d].pc = api[d].pc /\ api'[d].problem = api[d].problem
             /\ api'[d].topic = api[d].topic /\ api'[d].status = api[d].status
             /\ api'[d].isCompleted = api[d].isCompleted
             /\ api'[d].total = api[d].total /\ api'[d].completed = api[d].completed
             /\ api'[d].fresh => api[d].fresh /\ api[d].topic \notin ts
  <2>1. api[d] \in Request /\ Fits(api[d])
    BY DEF TypeOK, RequestsFit
  <2>2. CASE api[d].topic \in ts
    <3>1. api'[d] = [api[d] EXCEPT !.fresh = FALSE]
      BY <1>3, <2>2
    <3>2. api'[d] \in Request
      BY <2>1, <3>1, OutdatedFits
    <3>3. /\ api'[d].pc = api[d].pc /\ api'[d].problem = api[d].problem
          /\ api'[d].topic = api[d].topic /\ api'[d].status = api[d].status
          /\ api'[d].isCompleted = api[d].isCompleted
          /\ api'[d].total = api[d].total /\ api'[d].completed = api[d].completed
          /\ ~api'[d].fresh
      BY <2>1, <3>1 DEF Request
    <3>. QED BY <2>1, <3>2, <3>3 DEF Fits
  <2>3. CASE api[d].topic \notin ts
    BY <1>3, <2>1, <2>3
  <2>. QED BY <2>2, <2>3
<1>5. api' \in [Clients -> Request]
  BY <1>2, <1>4 DEF Outdate
<1>6. RequestsFit'
  BY <1>2, <1>4 DEF RequestsFit
<1>. QED BY <1>2, <1>4, <1>5, <1>6

\* Problem p becomes `new', and the requests that hold counts of the topics ts are told.
ProblemWritten(c, q, p, new, ts) ==
    /\ problems' = [problems EXCEPT ![p] = new]
    /\ api' = [Outdate(api, ts) EXCEPT ![c] = q]
    /\ problems[p].state = "stored" => problems[p].topicId \in ts
    /\ new.state = "stored" => new.topicId \in ts

\* What is stored refers to topics that are there, and a problem that is gone stays gone.
NewProblemOk(p, new) ==
    /\ new \in DsaProblem /\ new.state # "unborn"
    /\ problems[p].state = "deleted" => new.state = "deleted"
    /\ IF new.state = "stored" THEN new.topicId # NoTopic => topics[new.topicId].state # "unborn"
       ELSE new.topicId = NoTopic

\* A write of a problem keeps the invariant when each topic it touches is going to be
\* counted, or drifts, and a problem it completes is planned or going to be.
LEMMA ProblemStep ==
    ASSUME IInv, NEW c \in Clients, NEW q \in Request, Fits(q), NEW p \in Problems, NEW new,
           NEW ts, ProblemWritten(c, q, p, new, ts), NewProblemOk(p, new),
           UNCHANGED <<topics, laddered, requests, faults>>,
           drifted \subseteq drifted', drifted' \subseteq Topics \union {NoTopic},
           api[c].pc \in {"idle", "write", "remove"},
           q.pc \notin {"write", "writeCounts", "remove"}, q.pc = "reread" => q.problem = p,
           \A t \in ts : t \in Topics => t \in drifted' \/ WillCount(c, t)',
           faults = 0 /\ new.state = "stored" /\ new.isCompleted => Planned(p) \/ Obliged(q, p),
           faults = 0 /\ q.pc = "reread" /\ q.isCompleted => Planned(p)
    PROVE  IInv'
<1>1. /\ api' \in [Clients -> Request] /\ RequestsFit' /\ api'[c] = q
      /\ \A d \in Clients \ {c} :
           /\ api'[d].pc = api[d].pc /\ api'[d].problem = api[d].problem
           /\ api'[d].topic = api[d].topic /\ api'[d].status = api[d].status
           /\ api'[d].isCompleted = api[d].isCompleted
           /\ api'[d].total = api[d].total /\ api'[d].completed = api[d].completed
           /\ api'[d].fresh => api[d].fresh /\ api[d].topic \notin ts
  BY OutdateKeeps DEF IInv, ProblemWritten
<1>2. \A r \in Problems : problems'[r] = IF r = p THEN new ELSE problems[r]
  BY DEF IInv, TypeOK, ProblemWritten
<1>3. TypeOK'
  BY <1>1 DEF IInv, TypeOK, ProblemWritten, NewProblemOk
<1>4. RefersOk'
  <2>1. \A d \in Clients : api[d].pc \in {"write", "reread", "remove"} => api[d].problem \in Problems
    BY DEF IInv, RequestsFit, Fits
  <2>. QED BY <1>1, <1>2, <2>1 DEF IInv, RefersOk, NewProblemOk
<1>5. ASSUME NEW t, t \notin ts
      PROVE  countByTopic(t)' = countByTopic(t) /\ CompletedOf(t)' = CompletedOf(t)
  <2>1. \A r \in Problems :
          \/ problems'[r] = problems[r]
          \/ /\ ~(problems[r].state = "stored" /\ problems[r].topicId = t)
             /\ ~(problems'[r].state = "stored" /\ problems'[r].topicId = t)
    BY <1>2, <1>5 DEF ProblemWritten
  <2>. QED BY <2>1, CountsKept
<1>6. RecountsFit'
  BY <1>1, <1>5 DEF IInv, RecountsFit
<1>7. CountsExplained'
  <2>. SUFFICES ASSUME NEW t \in Topics, topics[t].state = "stored"
                PROVE  Exact(t)' \/ t \in drifted' \/ \E d \in Clients : WillCount(d, t)'
    BY DEF CountsExplained
  <2>1. CASE t \in ts
    BY <2>1
  <2>2. CASE t \notin ts
    <3>1. Exact(t) \/ t \in drifted \/ \E d \in Clients : WillCount(d, t)
      BY DEF IInv, CountsExplained
    <3>2. CASE Exact(t)
      BY <1>5, <2>2, <3>2 DEF Exact
    <3>3. CASE t \in drifted
      BY <3>3
    <3>4. ASSUME NEW d \in Clients, WillCount(d, t) PROVE WillCount(d, t)'
      <4>1. d # c
        BY <3>4 DEF WillCount, Counting
      <4>2. CASE api[d].pc = "reread"
        <5>1. api[d].problem \in Problems /\ problems[api[d].problem].topicId = t
          BY <3>4, <4>2 DEF IInv, RequestsFit, Fits, WillCount
        <5>2. api[d].problem # p
          BY <2>2, <5>1 DEF ProblemWritten, IInv, RefersOk, Topics, NoTopic
        <5>. QED BY <1>1, <1>2, <3>4, <4>1, <4>2, <5>1, <5>2 DEF WillCount, Counting
      <4>3. CASE api[d].pc # "reread"
        BY <1>1, <3>4, <4>1, <4>3 DEF WillCount, Counting
      <4>. QED BY <4>2, <4>3
    <3>. QED BY <3>1, <3>2, <3>3, <3>4
  <2>. QED BY <2>1, <2>2
<1>8. ASSUME NEW r, Planned(r) PROVE Planned(r)'
  <2>1. ASSUME NEW d \in Clients, Obliged(api[d], r) PROVE d # c /\ Obliged(api'[d], r)
    BY <1>1, <2>1 DEF Obliged
  <2>. QED BY <1>8, <2>1 DEF Planned
<1>9. CompletedIsPlanned'
  <2>1. Obliged(q, p) => Planned(p)'
    BY <1>1 DEF Planned, Obliged
  <2>. SUFFICES ASSUME faults = 0, NEW r \in Problems, problems'[r].state = "stored",
                       problems'[r].isCompleted
                PROVE  Planned(r)'
    BY DEF CompletedIsPlanned
  <2>2. CASE r = p
    BY <1>2, <1>8, <2>1, <2>2
  <2>3. CASE r # p
    BY <1>2, <1>8, <2>3 DEF IInv, CompletedIsPlanned
  <2>. QED BY <2>2, <2>3
<1>10. CompletedWasPlanned'
  <2>. SUFFICES ASSUME faults = 0, NEW d \in Clients,
                       api'[d].pc \in {"write", "reread"}, api'[d].isCompleted
                PROVE  Planned(api[d].problem)' \/ problems'[api'[d].problem].state = "deleted"
    BY DEF CompletedWasPlanned
  <2>1. CASE d = c
    <3>1. Planned(p)' /\ api'[d].problem = p
      BY <1>1, <1>8, <2>1
    <3>. QED BY <3>1 DEF Planned
  <2>2. CASE d # c
    <3>1. api[d].problem \in Problems
      BY <1>1, <2>2 DEF IInv, RequestsFit, Fits
    <3>2. Planned(api[d].problem) \/ problems[api[d].problem].state = "deleted"
      BY <1>1, <2>2 DEF IInv, CompletedWasPlanned
    <3>3. CASE Planned(api[d].problem)
      BY <1>1, <1>8, <2>2, <3>3 DEF Planned
    <3>4. CASE problems[api[d].problem].state = "deleted"
      BY <1>1, <1>2, <2>2, <3>1, <3>4 DEF NewProblemOk
    <3>. QED BY <3>2, <3>3, <3>4
  <2>. QED BY <2>1, <2>2
<1>. QED BY <1>1, <1>3, <1>4, <1>6, <1>7, <1>9, <1>10 DEF IInv

LEMMA CreateProblemKeeps ==
    ASSUME IInv, NEW c \in Clients, createProblem(c)
    PROVE  IInv'
<1>1. PICK p \in Problems, t \in Topics \union {NoTopic}, done \in BOOLEAN :
        /\ problems[p].state = "unborn"
        /\ t # NoTopic => topics[t].state # "unborn"
        /\ problems' = [problems EXCEPT
             ![p] = [state |-> "stored", topicId |-> t, isCompleted |-> done]]
        /\ api' = [Outdate(api, {t}) EXCEPT
             ![c] = IF done THEN ScheduleOf(p, t) ELSE SyncOf(t)]
  BY DEF createProblem
<1>. DEFINE q == IF done THEN ScheduleOf(p, t) ELSE SyncOf(t)
            new == [state |-> "stored", topicId |-> t, isCompleted |-> done]
<1>2. /\ q \in Request /\ Fits(q) /\ q.pc \in {"schedule", "findTopic", "idle"}
      /\ done => Obliged(q, p)
      /\ t # NoTopic => Counting(q) /\ q.pc # "reread" /\ q.topic = t
  <2>1. p # 0
    BY DEF Problems
  <2>2. CASE done
    <3>1. q = ScheduleOf(p, t) /\ q.pc = "schedule" /\ q.problem = p /\ q.topic = t
      BY <2>2 DEF ScheduleOf, IdleRequest
    <3>. QED BY <2>1, <2>2, <3>1, FollowUps DEF Obliged, Counting
  <2>3. CASE ~done
    <3>1. /\ q = SyncOf(t) /\ q.pc \in {"findTopic", "idle"}
          /\ t # NoTopic => q.pc = "findTopic" /\ q.topic = t
      BY <2>3 DEF SyncOf, IdleRequest
    <3>. QED BY <2>3, <3>1, FollowUps DEF Counting
  <2>. QED BY <2>2, <2>3
<1>3. new \in DsaProblem /\ new.state = "stored" /\ new.topicId = t /\ new.isCompleted = done
  BY DEF DsaProblem, DocStates
<1>4. problems' = [problems EXCEPT ![p] = new] /\ api' = [Outdate(api, {t}) EXCEPT ![c] = q]
  BY <1>1
<1>. HIDE DEF q, new
<1>5. ProblemWritten(c, q, p, new, {t}) /\ NewProblemOk(p, new)
  BY <1>1, <1>3, <1>4 DEF ProblemWritten, NewProblemOk
<1>6. \A s \in {t} : s \in Topics => WillCount(c, s)'
  <2>1. api'[c] = q
    BY <1>4 DEF Outdate
  <2>. QED BY <1>2, <2>1 DEF WillCount, Counting, Topics, NoTopic
<1>7. api[c].pc = "idle" /\ UNCHANGED <<topics, laddered, drifted, requests, faults>>
  BY DEF createProblem
<1>. QED BY <1>2, <1>3, <1>5, <1>6, <1>7, ProblemStep DEF IInv, TypeOK

\* The topic the problem comes to is counted by this request; the one it leaves drifts.
LEMMA WriteProblemKeeps ==
    ASSUME IInv, NEW c \in Clients, WriteProblem(c)
    PROVE  IInv'
<1>1. PICK request \in Request : request = api[c] /\ Fits(request) /\ request.pc = "write"
  BY DEF WriteProblem, IInv, TypeOK, RequestsFit
<1>2. PICK p \in Problems : p = request.problem
  BY <1>1 DEF Fits
<1>3. PICK before \in DsaProblem : before = problems[p]
  BY DEF IInv, TypeOK
<1>4. CASE before.state = "stored"
  <2>. DEFINE to == IF request.topic = NoTopic THEN before.topicId ELSE request.topic
              done == IF request.status = "keep" THEN before.isCompleted ELSE request.status = "completed"
              new == [before EXCEPT !.topicId = to, !.isCompleted = done]
              q == [request EXCEPT !.pc = "reread"]
              ts == {before.topicId, to}
  <2>1. to \in Topics \union {NoTopic} /\ done \in BOOLEAN
    BY <1>3 DEF DsaProblem, Request
  <2>2. to # NoTopic => topics[to].state # "unborn"
    BY <1>1, <1>2, <1>3, <1>4 DEF IInv, RefersOk
  <2>3. /\ problems' = [problems EXCEPT ![p] = new]
        /\ api' = [Outdate(api, ts) EXCEPT ![c] = q]
        /\ drifted' = IF to = before.topicId THEN drifted ELSE drifted \union {before.topicId}
        /\ UNCHANGED <<topics, laddered, requests, faults>>
    <3>1. problems' = [problems EXCEPT ![p].topicId = to, ![p].isCompleted = done]
      BY <1>1, <1>2, <1>3, <1>4 DEF WriteProblem, IInv, TypeOK, DsaProblem
    <3>. QED BY <1>1, <1>2, <1>3, <1>4, <3>1 DEF WriteProblem, IInv, TypeOK
  <2>. HIDE DEF to, done
  <2>4. new \in DsaProblem /\ new.state = "stored" /\ new.topicId = to /\ new.isCompleted = done
    BY <1>4, <2>1 DEF DsaProblem
  <2>5. /\ q \in Request /\ q.pc = "reread" /\ q.problem = p
        /\ q.isCompleted = request.isCompleted /\ q.status = request.status
    BY <1>2 DEF Request
  <2>6. Fits(q)
    BY <1>1, <1>2, <2>5 DEF Fits, Request
  <2>. HIDE DEF new, q
  <2>7. api'[c] = q /\ problems'[p] = new
    BY <2>3 DEF Outdate, IInv, TypeOK
  <2>8. ProblemWritten(c, q, p, new, ts) /\ NewProblemOk(p, new)
    BY <1>3, <1>4, <2>2, <2>3, <2>4 DEF ProblemWritten, NewProblemOk
  <2>9. \A t \in ts : t \in Topics => t \in drifted' \/ WillCount(c, t)'
    BY <2>3, <2>4, <2>5, <2>7 DEF WillCount, Counting
  <2>10. drifted \subseteq drifted' /\ drifted' \subseteq Topics \union {NoTopic}
    BY <2>3 DEF IInv, TypeOK, DsaProblem
  <2>11. faults = 0 /\ request.isCompleted => Planned(p)
    BY <1>1, <1>2, <1>3, <1>4 DEF IInv, CompletedWasPlanned
  <2>12. faults = 0 /\ new.isCompleted => Planned(p) \/ Obliged(q, p)
    <3>1. CASE request.status = "keep"
      BY <1>3, <1>4, <2>4, <3>1 DEF IInv, CompletedIsPlanned, done
    <3>2. CASE request.status # "keep"
      BY <2>4, <2>5, <2>11, <3>2 DEF Obliged, done
    <3>. QED BY <3>1, <3>2
  <2>. QED BY <1>1, <2>3, <2>4, <2>5, <2>6, <2>8, <2>9, <2>10, <2>11, <2>12, ProblemStep
<1>5. CASE before.state # "stored"
  <2>1. Answer(c) /\ UNCHANGED <<topics, problems, laddered, drifted, requests, faults>>
    BY <1>1, <1>2, <1>3, <1>5 DEF WriteProblem
  <2>2. TopicsKept /\ (\A t \in Topics : StillExplained(c, t)) /\ (\A r \in Problems : ~Obliged(api[c], r))
    BY <1>1, <2>1 DEF IInv, TypeOK, TopicsKept, StillExplained, WillCount, Counting, Obliged
  <2>. QED BY <2>1, <2>2, AnswerStep DEF IInv, TypeOK
<1>. QED BY <1>4, <1>5

\* The topic read before the deletion is counted; the topic the problem is in by now drifts.
LEMMA RemoveProblemKeeps ==
    ASSUME IInv, NEW c \in Clients, RemoveProblem(c)
    PROVE  IInv'
<1>1. PICK p \in Problems : p = api[c].problem
  BY DEF RemoveProblem, IInv, RequestsFit, Fits
<1>2. PICK t \in Topics \union {NoTopic} : t = api[c].topic
  BY DEF IInv, TypeOK, Request
<1>3. PICK from \in Topics \union {NoTopic} : from = problems[p].topicId
  BY DEF IInv, TypeOK, DsaProblem
<1>. DEFINE q == SyncOf(t)
            new == ProblemIn("deleted")
<1>4. /\ problems' = [problems EXCEPT ![p] = new]
      /\ api' = [Outdate(api, {from}) EXCEPT ![c] = q]
      /\ drifted' = IF from = t \/ problems[p].state = "deleted" THEN drifted
                    ELSE drifted \union {from}
      /\ api[c].pc = "remove" /\ UNCHANGED <<topics, laddered, requests, faults>>
  BY <1>1, <1>2, <1>3 DEF RemoveProblem
<1>5. /\ q \in Request /\ Fits(q) /\ q.pc \in {"findTopic", "idle"}
      /\ t # NoTopic => q.pc = "findTopic" /\ q.topic = t
  BY FollowUps DEF SyncOf, IdleRequest
<1>6. new \in DsaProblem /\ new.state = "deleted" /\ new.topicId = NoTopic
  BY InitialRecords DEF ProblemIn
<1>. HIDE DEF q, new
<1>7. ProblemWritten(c, q, p, new, {from}) /\ NewProblemOk(p, new)
  BY <1>4, <1>6, <1>3 DEF ProblemWritten, NewProblemOk
<1>8. api'[c] = q
  BY <1>4 DEF Outdate
<1>9. from \in Topics => from \in drifted' \/ WillCount(c, from)'
  <2>1. problems[p].state = "deleted" => from = NoTopic
    BY <1>3 DEF IInv, RefersOk
  <2>2. CASE from = t
    BY <1>5, <1>8, <2>2 DEF WillCount, Counting, Topics, NoTopic
  <2>3. CASE from # t
    BY <1>4, <2>1, <2>3 DEF Topics, NoTopic
  <2>. QED BY <2>2, <2>3
<1>10. drifted \subseteq drifted' /\ drifted' \subseteq Topics \union {NoTopic}
  BY <1>4, <1>3 DEF IInv, TypeOK
<1>. QED BY <1>4, <1>5, <1>6, <1>7, <1>9, <1>10, ProblemStep

-----------------------------------------------------------------------------
(* The theorems.                                                            *)

LEMMA NextInvariant == IInv /\ [Next]_vars => IInv'
<1>. SUFFICES ASSUME IInv, [Next]_vars PROVE IInv'
  OBVIOUS
<1>1. CASE UNCHANGED vars
  <2>. USE <1>1 DEF vars
  <2>1. TypeOK' /\ RequestsFit' /\ RefersOk'
    BY DEF IInv, TypeOK, RequestsFit, RefersOk
  <2>2. \A t : countByTopic(t)' = countByTopic(t) /\ CompletedOf(t)' = CompletedOf(t)
    BY CountsKept
  <2>3. RecountsFit' /\ CountsExplained'
    BY <2>2 DEF IInv, RecountsFit, CountsExplained, Exact, WillCount
  <2>4. CompletedIsPlanned' /\ CompletedWasPlanned'
    BY DEF IInv, CompletedIsPlanned, CompletedWasPlanned, Planned
  <2>. QED BY <2>1, <2>2, <2>3, <2>4 DEF IInv
<1>2. ASSUME NEW c \in Clients, createTopic(c) PROVE IInv'
  BY <1>2, CreateTopicKeeps
<1>3. ASSUME NEW c \in Clients, NEW t \in Topics,
             \/ ReadTopic(c, t, "updateTopic", "edit")
             \/ ReadTopic(c, t, "completeTopic", "completeTopic")
             \/ ReadTopic(c, t, "deleteTopic", "deleteTopic")
      PROVE  IInv'
  BY <1>3, ReadTopicKeeps
<1>4. ASSUME NEW c \in Clients, updateTopic(c) \/ completeTopic(c) \/ deleteTopic(c) PROVE IInv'
  BY <1>4, UpdateTopicKeeps, CompleteTopicKeeps, DeleteTopicKeeps
<1>5. ASSUME NEW c \in Clients, createProblem(c) PROVE IInv'
  BY <1>5, CreateProblemKeeps
<1>6. ASSUME NEW c \in Clients, BeginUpdateProblem(c) \/ WriteProblem(c) \/ RereadProblem(c)
      PROVE  IInv'
  BY <1>6, BeginUpdateProblemKeeps, WriteProblemKeeps, RereadProblemKeeps
<1>7. ASSUME NEW c \in Clients, BeginDeleteProblem(c) \/ RemoveProblem(c) PROVE IInv'
  BY <1>7, BeginDeleteProblemKeeps, RemoveProblemKeeps
<1>8. ASSUME NEW c \in Clients, ScheduleLadder(c) PROVE IInv'
  BY <1>8, ScheduleLadderKeeps
<1>9. ASSUME NEW c \in Clients, FindTopic(c) \/ CountProblems(c) \/ WriteCounts(c) PROVE IInv'
  BY <1>9, FindTopicKeeps, CountProblemsKeeps, WriteCountsKeeps
<1>10. ASSUME NEW c \in Clients, RequestFails(c) PROVE IInv'
  BY <1>10, RequestFailsKeeps
<1>. QED BY <1>1, <1>2, <1>3, <1>4, <1>5, <1>6, <1>7, <1>8, <1>9, <1>10 DEF Next

\* The inductive invariant holds in every state the requests can reach.
THEOREM Invariant == Spec => []IInv
  BY InitInvariant, NextInvariant, PTL DEF Spec

\* Topics, problems and requests keep their shape, and no card shows more than 100 percent,
\* for any number of clients, documents, requests and failures.
THEOREM TypeCorrect == Spec => []TypeOK
<1>1. IInv => TypeOK
  BY DEF IInv
<1>. QED BY <1>1, Invariant, PTL

\* syncTopicCounts: the counts of a topic drift in the ways the model names and in no other.
THEOREM CountsAreExplained == Spec => []CountsExplained
<1>1. IInv => CountsExplained
  BY DEF IInv
<1>. QED BY <1>1, Invariant, PTL

\* onProblemCompleted: without a failure every completed problem has its ladder, or the
\* request that completed it is about to schedule it.
THEOREM CompletedGetsLadder == Spec => []CompletedHasLadder
<1>1. IInv => CompletedHasLadder
  BY DEF IInv, CompletedIsPlanned, Planned, Obliged, CompletedHasLadder
<1>. QED BY <1>1, Invariant, PTL

\* No edit, completion or recount brings back a topic that was deleted.
THEOREM DeletedTopicIsGone == Spec => TopicStaysDeleted
<1>1. IInv /\ [Next]_vars =>
        [\A t \in Topics : topics[t].state = "deleted" => topics'[t].state = "deleted"]_vars
  <2>. SUFFICES ASSUME IInv, Next, NEW t \in Topics, topics[t].state = "deleted"
                PROVE  topics'[t].state = "deleted"
    BY DEF vars
  <2>1. topics \in [Topics -> DsaTopic] /\ \A s \in Topics : topics[s] \in DsaTopic
    BY DEF IInv, TypeOK
  <2>2. ASSUME NEW c \in Clients, createTopic(c) PROVE topics'[t].state = "deleted"
    BY <2>1, <2>2 DEF createTopic
  <2>3. ASSUME NEW c \in Clients, updateTopic(c) PROVE topics'[t].state = "deleted"
    BY <2>1, <2>3 DEF updateTopic, DsaTopic
  <2>4. ASSUME NEW c \in Clients, completeTopic(c) PROVE topics'[t].state = "deleted"
    BY <2>1, <2>4 DEF completeTopic, DsaTopic
  <2>5. ASSUME NEW c \in Clients, deleteTopic(c) PROVE topics'[t].state = "deleted"
    BY <2>1, <2>5 DEF deleteTopic, TopicIn
  <2>6. ASSUME NEW c \in Clients, WriteCounts(c) PROVE topics'[t].state = "deleted"
    BY <2>1, <2>6 DEF WriteCounts, WriteCountsTo, DsaTopic
  <2>7. CASE UNCHANGED topics
    BY <2>7
  <2>. QED BY <2>2, <2>3, <2>4, <2>5, <2>6, <2>7
           DEF Next, ReadTopic, createProblem, BeginUpdateProblem, WriteProblem, RereadProblem,
               BeginDeleteProblem, RemoveProblem, ScheduleLadder, FindTopic, CountProblems,
               RequestFails
<1>. QED BY <1>1, Invariant, PTL DEF Spec, TopicStaysDeleted

=============================================================================
