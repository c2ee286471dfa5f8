-------------------------- MODULE StudyRecordsProofs --------------------------
(***************************************************************************)
(* What holds of the user's documents for any number of requests,          *)
(* documents and days.                                                     *)
(*                                                                         *)
(* An update is decided on a document that is read, and written an await   *)
(* later.  The patch a request carries therefore has to stay right while   *)
(* others write: one that completes a task or a problem without dating it  *)
(* was made from a document that had its date already, and no write takes  *)
(* a date away (RequestsDate).                                             *)
(***************************************************************************)
EXTENDS StudyRecords, FiniteSetTheorems, TLAPS

\* Every write that is under way has its place.
RoomLeft == IsFiniteSet(Creating) /\ Len(docs) + Cardinality(Creating) <= MaxDocs

PatchFits(patch) ==
    /\ DOMAIN patch \subseteq {"status", "doneAt", "at", "flag"}
    /\ "status" \in DOMAIN patch => patch.status \in TaskStatuses \union ProblemStatuses \union RevisionStatuses
    /\ "doneAt" \in DOMAIN patch => patch.doneAt \in 0 .. now
    /\ "at" \in DOMAIN patch => patch.at \in Nat
    /\ "flag" \in DOMAIN patch => patch.flag \in BOOLEAN

\* What a request carries fits what it is to do.
Fits(q) ==
    /\ q.op \in {"idle", "create", "rung", "update", "complete", "delete"}
    /\ q.op \in {"update", "complete", "delete"} => q.id \in DOMAIN docs
    /\ q.op \in {"create", "rung", "update", "complete"} => PatchFits(q.patch)
    /\ q.op = "complete" => "revisions" \in Collections
    /\ q.op = "create" => "reflections" \in Collections /\ DOMAIN q.patch = {"at", "flag"}
    /\ q.op = "rung" =>
          /\ "revisions" \in Collections
          /\ DOMAIN q.patch = {"status", "at"} /\ q.patch.status = "scheduled"

RequestsFit == api = [c \in Clients |-> api[c]] /\ \A c \in Clients : Fits(api[c])

\* A request that will leave a document completed will leave it dated.
LeavesDated(q) ==
    /\ q.op \in {"update", "complete"} /\ docs[q.id].collection # "deleted"
    /\ "status" \in DOMAIN q.patch /\ q.patch.status = "completed"
    => "doneAt" \in DOMAIN q.patch \/ docs[q.id].doneAt # Absent

RequestsDate == \A c \in Clients : LeavesDated(api[c])

DoneBefore == \A id \in DOMAIN docs : docs[id].doneAt # Absent => docs[id].doneAt <= now

IInv ==
    /\ TypeOK /\ RoomLeft /\ RequestsFit
    /\ DoneBefore /\ RequestsDate /\ CompletedIsDated

-----------------------------------------------------------------------------
(* Documents and sequences of them.                                         *)

LEMMA BlankIsDocument ==
    /\ Blank \in Document
    /\ Blank.collection = "deleted" /\ Blank.status = "none" /\ Blank.at = Absent
    /\ Blank.doneAt = Absent
  BY ConstantsAssumption DEF Blank, Document, Times, Absent

LEMMA StoredEffect ==
    ASSUME now \in Times, NEW name \in Collections, NEW data \in Document
    PROVE  /\ Stored(name, data) \in Document
           /\ Stored(name, data).collection = name /\ Stored(name, data).status = data.status
           /\ Stored(name, data).at = data.at /\ Stored(name, data).doneAt = data.doneAt
           /\ Stored(name, data).createdAt = now /\ Stored(name, data).updatedAt = now
  BY DEF Stored, Document

LEMMA MergedEffect ==
    ASSUME now \in Times, NEW doc \in Document, NEW patch, PatchFits(patch)
    PROVE  LET new == Merged(doc, patch) IN
           /\ new \in Document /\ new.collection = doc.collection
           /\ new.status = IF "status" \in DOMAIN patch THEN patch.status ELSE doc.status
           /\ new.doneAt = IF "doneAt" \in DOMAIN patch THEN patch.doneAt ELSE doc.doneAt
           /\ new.at = IF "at" \in DOMAIN patch THEN patch.at ELSE doc.at
           /\ new.createdAt = doc.createdAt /\ new.updatedAt = doc.updatedAt
<1>. DEFINE new == Merged(doc, patch)
            Fields == {"collection", "status", "at", "reminderAt", "doneAt", "durationMinutes",
                       "flag", "createdAt", "updatedAt"}
<1>1. DOMAIN doc = Fields
  BY DEF Document
<1>2. new = [f \in Fields |-> IF f \in DOMAIN patch THEN patch[f] ELSE doc[f]]
  BY <1>1 DEF Merged
<1>3. /\ new.collection = doc.collection /\ new.reminderAt = doc.reminderAt
      /\ new.durationMinutes = doc.durationMinutes /\ new.createdAt = doc.createdAt
      /\ new.updatedAt = doc.updatedAt
  BY <1>2 DEF PatchFits
<1>4. /\ new.status = IF "status" \in DOMAIN patch THEN patch.status ELSE doc.status
      /\ new.doneAt = IF "doneAt" \in DOMAIN patch THEN patch.doneAt ELSE doc.doneAt
      /\ new.at = IF "at" \in DOMAIN patch THEN patch.at ELSE doc.at
      /\ new.flag = IF "flag" \in DOMAIN patch THEN patch.flag ELSE doc.flag
  BY <1>2
<1>5. new = [f \in Fields |-> new[f]]
  BY <1>2
<1>6. new = [collection |-> new.collection, status |-> new.status, at |-> new.at,
             reminderAt |-> new.reminderAt, doneAt |-> new.doneAt,
             durationMinutes |-> new.durationMinutes, flag |-> new.flag,
             createdAt |-> new.createdAt, updatedAt |-> new.updatedAt]
  <2>. HIDE DEF new
  <2>. QED BY <1>5
<1>. HIDE DEF new
<1>7. /\ new.status \in TaskStatuses \union ProblemStatuses \union RevisionStatuses \union {"none"}
      /\ new.doneAt \in Times \union {Absent} /\ new.at \in Nat \union {Absent}
      /\ new.flag \in BOOLEAN
  BY <1>4, ConstantsAssumption DEF PatchFits, Document, Times
<1>8. new \in Document
  BY <1>3, <1>6, <1>7 DEF Document
<1>. QED BY <1>3, <1>4, <1>8 DEF new

LEMMA AppendEffect ==
    ASSUME docs \in Seq(Document), NEW d \in Document, docs' = Append(docs, d)
    PROVE  /\ docs' \in Seq(Document) /\ Len(docs') = Len(docs) + 1 /\ Len(docs) \in Nat
           /\ DOMAIN docs' = DOMAIN docs \union {Len(docs) + 1}
           /\ Len(docs) + 1 \notin DOMAIN docs /\ docs'[Len(docs) + 1] = d
           /\ \A id \in DOMAIN docs : docs'[id] = docs[id]
  OBVIOUS

LEMMA WriteEffect ==
    ASSUME docs \in Seq(Document), NEW id \in DOMAIN docs, NEW d \in Document,
           docs' = [docs EXCEPT ![id] = d]
    PROVE  /\ docs' \in Seq(Document) /\ Len(docs') = Len(docs) /\ DOMAIN docs' = DOMAIN docs
           /\ docs'[id] = d
           /\ \A i \in DOMAIN docs : i # id => docs'[i] = docs[i]
  OBVIOUS

\* A document that is there is of a collection that users have, or deleted.
LEMMA DocumentAt ==
    ASSUME TypeOK, NEW id \in DOMAIN docs
    PROVE  docs[id] \in Document
  BY DEF TypeOK

LEMMA InitInvariant == Init => IInv
<1>. SUFFICES ASSUME Init PROVE IInv
  OBVIOUS
<1>1. docs = <<>> /\ DOMAIN docs = {} /\ Len(docs) = 0 /\ docs \in Seq(Document)
  BY DEF Init
<1>2. \A c \in Clients : api[c].op = "idle"
  BY DEF Init, Idle
<1>3. Creating = {} /\ IsFiniteSet(Creating) /\ Cardinality(Creating) = 0
  BY <1>2, FS_EmptySet DEF Creating
<1>4. In("deleted") = {}
  BY <1>1 DEF In
<1>5. TypeOK
  BY <1>1, <1>2, <1>4, ConstantsAssumption DEF TypeOK, Init, Times
<1>6. RoomLeft
  BY <1>1, <1>3, ConstantsAssumption DEF RoomLeft
<1>7. RequestsFit
  BY <1>2 DEF RequestsFit, Fits, Init
<1>8. DoneBefore /\ RequestsDate /\ CompletedIsDated
  BY <1>1, <1>2 DEF DoneBefore, RequestsDate, LeavesDated, CompletedIsDated
<1>. QED BY <1>5, <1>6, <1>7, <1>8 DEF IInv

-----------------------------------------------------------------------------
(* The clock.                                                               *)

LEMMA TickKeeps == ASSUME IInv, Tick PROVE IInv'
<1>1. /\ now' = now + 1 /\ now' \in Times /\ now \in Nat
      /\ UNCHANGED <<docs, api, requests>>
  BY ConstantsAssumption DEF IInv, TypeOK, Tick, Times
<1>2. TypeOK' /\ RoomLeft'
  BY <1>1 DEF IInv, TypeOK, In, RoomLeft, Creating
<1>3. RequestsFit'
  <2>1. \A q : Fits(q) => Fits(q)'
    BY <1>1 DEF Fits, PatchFits
  <2>. QED BY <1>1, <2>1 DEF IInv, RequestsFit
<1>4. DoneBefore'
  <2>1. \A id \in DOMAIN docs : docs[id].doneAt # Absent => docs[id].doneAt \in Nat
    BY DocumentAt, ConstantsAssumption DEF IInv, Document, Times
  <2>. QED BY <1>1, <2>1 DEF IInv, DoneBefore
<1>5. RequestsDate'
  BY <1>1 DEF IInv, RequestsDate, LeavesDated
<1>6. CompletedIsDated'
  BY <1>1 DEF IInv, CompletedIsDated
<1>. QED BY <1>2, <1>3, <1>4, <1>5, <1>6 DEF IInv

-----------------------------------------------------------------------------
(* A request is accepted.                                                   *)

Accepts(c, q) ==
    /\ api[c].op = "idle" /\ requests < MaxRequests
    /\ api' = [api EXCEPT ![c] = q]
    /\ requests' = requests + 1
    /\ UNCHANGED <<now, docs>>

LEMMA AcceptKeeps ==
    ASSUME IInv, NEW c \in Clients, NEW q, Accepts(c, q), Fits(q), LeavesDated(q),
           q.op \in {"create", "rung"} => Room
    PROVE  IInv'
<1>1. \A d \in Clients : api'[d] = IF d = c THEN q ELSE api[d]
  BY DEF Accepts, IInv, RequestsFit
<1>2. UNCHANGED <<now, docs>> /\ api[c].op = "idle"
  BY DEF Accepts
<1>3. requests' \in 0 .. MaxRequests
  BY ConstantsAssumption DEF Accepts, IInv, TypeOK
<1>4. Fits(q)' /\ LeavesDated(q)'
  BY <1>2 DEF Fits, PatchFits, LeavesDated
<1>5. TypeOK'
  BY <1>1, <1>2, <1>3, <1>4 DEF IInv, TypeOK, In, Fits
<1>6. Creating' = IF q.op \in {"create", "rung"} THEN Creating \union {c} ELSE Creating
  BY <1>1, <1>2 DEF Creating
<1>7. RoomLeft'
  <2>1. c \notin Creating /\ IsFiniteSet(Creating)
    BY <1>2 DEF Creating, IInv, RoomLeft
  <2>2. CASE q.op \in {"create", "rung"}
    <3>1. Cardinality(Creating \union {c}) = Cardinality(Creating) + 1
          /\ IsFiniteSet(Creating \union {c})
      BY <2>1, FS_AddElement
    <3>2. Len(docs) + Cardinality(Creating) < MaxDocs
      BY <2>2 DEF Room
    <3>3. Cardinality(Creating) \in Nat /\ Len(docs) \in Nat
      BY <2>1, FS_CardinalityType DEF IInv, TypeOK
    <3>4. Len(docs) + Cardinality(Creating \union {c}) <= MaxDocs
      BY <3>1, <3>2, <3>3, ConstantsAssumption
    <3>. QED BY <1>2, <1>6, <2>2, <3>1, <3>4 DEF RoomLeft
  <2>3. CASE q.op \notin {"create", "rung"}
    BY <1>2, <1>6, <2>3 DEF IInv, RoomLeft
  <2>. QED BY <2>2, <2>3
<1>8. RequestsFit'
  <2>1. \A d \in Clients : d # c => Fits(api[d])'
    BY <1>1, <1>2 DEF IInv, RequestsFit, Fits, PatchFits
  <2>2. Fits(api[c])'
    BY <1>1, <1>4 DEF Fits, PatchFits
  <2>3. api' = [d \in Clients |-> api'[d]]
    BY DEF Accepts, IInv, RequestsFit
  <2>. QED BY <2>1, <2>2, <2>3 DEF RequestsFit
<1>9. DoneBefore' /\ CompletedIsDated'
  BY <1>2 DEF IInv, DoneBefore, CompletedIsDated
<1>10. RequestsDate'
  BY <1>1, <1>2, <1>4 DEF IInv, RequestsDate, LeavesDated
<1>. QED BY <1>5, <1>7, <1>8, <1>9, <1>10 DEF IInv

LEMMA BeginKeeps ==
    ASSUME IInv, NEW c \in Clients, NEW name \in CollectionNames,
           NEW op \in {"update", "complete", "delete"}, NEW id, NEW patch,
           Begin(c, name, op, id, patch),
           op # "delete" => PatchFits(patch), op = "complete" => name = "revisions",
           LeavesDated([op |-> op, id |-> id, patch |-> patch])
    PROVE  IInv'
<1>. DEFINE q == [op |-> op, id |-> id, patch |-> patch]
<1>1. q.op = op /\ q.id = id /\ q.patch = patch
  OBVIOUS
<1>2. id \in DOMAIN docs /\ docs[id].collection = name /\ docs[id] \in Document
  BY DocumentAt DEF Begin, In, IInv
<1>3. Accepts(c, q)
  BY DEF Begin, Accepts
<1>4. LeavesDated(q)
  OBVIOUS
<1>. HIDE DEF q
<1>5. op = "complete" => "revisions" \in Collections
  BY <1>2 DEF Document, CollectionNames
<1>6. Fits(q)
  BY <1>1, <1>2, <1>5 DEF Fits
<1>. QED BY <1>1, <1>3, <1>4, <1>6, AcceptKeeps

LEMMA BeginUpdateTaskKeeps ==
    ASSUME IInv, NEW c \in Clients, BeginUpdateTask(c)
    PROVE  IInv'
<1>1. PICK id \in In("tasks") :
         \/ \E status \in Statuses : Begin(c, "tasks", "update", id, StatusPatch(docs[id], status))
         \/ \E at \in Dates : Begin(c, "tasks", "update", id, [at |-> at])
  BY DEF BeginUpdateTask
<1>2. CASE \E at \in Dates : Begin(c, "tasks", "update", id, [at |-> at])
  <2>1. PICK at \in Dates : Begin(c, "tasks", "update", id, [at |-> at])
    BY <1>2
  <2>2. PICK patch : patch = [at |-> at]
    OBVIOUS
  <2>3. DOMAIN patch = {"at"} /\ patch.at \in Nat
    BY <2>2, ConstantsAssumption
  <2>4. PatchFits(patch) /\ LeavesDated([op |-> "update", id |-> id, patch |-> patch])
    BY <2>3 DEF PatchFits, LeavesDated
  <2>. QED BY <2>1, <2>2, <2>4, BeginKeeps DEF CollectionNames
<1>3. CASE \E status \in Statuses : Begin(c, "tasks", "update", id, StatusPatch(docs[id], status))
  <2>1. PICK status \in Statuses : Begin(c, "tasks", "update", id, StatusPatch(docs[id], status))
    BY <1>3
  <2>2. PICK patch : patch = StatusPatch(docs[id], status)
    OBVIOUS
  <2>3. now \in 0 .. now /\ status \in TaskStatuses
    BY ConstantsAssumption DEF IInv, TypeOK, Times
  <2>4. docs[id].status = "completed" <=> withComputedStatus(docs[id]).status = "completed"
    <3>1. id \in DOMAIN docs /\ docs[id] \in Document
      BY DocumentAt DEF In, IInv
    <3>2. [docs[id] EXCEPT !.status = "overdue"].status = "overdue"
      BY <3>1 DEF Document
    <3>. QED BY <3>2 DEF withComputedStatus
  <2>5. docs[id].status = "completed" => docs[id].doneAt # Absent
    BY DEF IInv, CompletedIsDated, Absent, In
  <2>6. CASE status = "completed" /\ docs[id].status # "completed"
    <3>1. patch = [status |-> status, doneAt |-> now]
      BY <2>2, <2>4, <2>6 DEF StatusPatch
    <3>2. DOMAIN patch = {"status", "doneAt"} /\ patch.status = status /\ patch.doneAt = now
      BY <3>1
    <3>3. PatchFits(patch) /\ LeavesDated([op |-> "update", id |-> id, patch |-> patch])
      BY <2>3, <3>2 DEF PatchFits, LeavesDated
    <3>. QED BY <2>1, <2>2, <3>3, BeginKeeps DEF CollectionNames
  <2>7. CASE ~(status = "completed" /\ docs[id].status # "completed")
    <3>1. patch = [status |-> status]
      BY <2>2, <2>4, <2>7 DEF StatusPatch
    <3>2. DOMAIN patch = {"status"} /\ patch.status = status
      BY <3>1
    <3>3. PatchFits(patch) /\ LeavesDated([op |-> "update", id |-> id, patch |-> patch])
      BY <2>3, <2>5, <2>7, <3>2 DEF PatchFits, LeavesDated
    <3>. QED BY <2>1, <2>2, <3>3, BeginKeeps DEF CollectionNames
  <2>. QED BY <2>6, <2>7
<1>. QED BY <1>1, <1>2, <1>3

LEMMA DaysAreNumbers == \A t \in Dates : dayKeyOf(t) \in Nat
  BY ConstantsAssumption DEF dayKeyOf

LEMMA BeginOtherKeeps ==
    ASSUME IInv, NEW c \in Clients,
           \/ BeginUpdateSession(c) \/ BeginUpdateNote(c) \/ BeginUpdateReflection(c)
           \/ BeginDelete(c)
    PROVE  IInv'
<1>1. CASE BeginUpdateSession(c)
  <2>1. PICK id \in In("study_sessions"), at \in Dates :
            Begin(c, "study_sessions", "update", id, [at |-> at])
    BY <1>1 DEF BeginUpdateSession
  <2>2. PICK patch : patch = [at |-> at]
    OBVIOUS
  <2>3. DOMAIN patch = {"at"} /\ patch.at \in Nat
    BY <2>2, ConstantsAssumption
  <2>4. PatchFits(patch) /\ LeavesDated([op |-> "update", id |-> id, patch |-> patch])
    BY <2>3 DEF PatchFits, LeavesDated
  <2>. QED BY <2>1, <2>2, <2>4, BeginKeeps DEF CollectionNames
<1>2. CASE BeginUpdateNote(c)
  <2>1. PICK id \in In("notes"), archived \in BOOLEAN :
            Begin(c, "notes", "update", id, [flag |-> archived])
    BY <1>2 DEF BeginUpdateNote
  <2>2. PICK patch : patch = [flag |-> archived]
    OBVIOUS
  <2>3. DOMAIN patch = {"flag"} /\ patch.flag = archived
    BY <2>2
  <2>4. PatchFits(patch) /\ LeavesDated([op |-> "update", id |-> id, patch |-> patch])
    BY <2>3 DEF PatchFits, LeavesDated
  <2>. QED BY <2>1, <2>2, <2>4, BeginKeeps DEF CollectionNames
<1>3. CASE BeginDelete(c)
  <2>1. PICK name \in CollectionNames \ {"habits"}, id \in Ids :
            Begin(c, name, "delete", id, <<>>)
    BY <1>3 DEF BeginDelete
  <2>2. LeavesDated([op |-> "delete", id |-> id, patch |-> <<>>])
    BY DEF LeavesDated
  <2>. QED BY <2>1, <2>2, BeginKeeps
<1>4. CASE BeginUpdateReflection(c)
  <2>1. PICK id \in In("reflections"), day \in {dayKeyOf(t) : t \in Dates} :
            Begin(c, "reflections", "update", id, [at |-> day])
    BY <1>4 DEF BeginUpdateReflection
  <2>2. PICK patch : patch = [at |-> day]
    OBVIOUS
  <2>3. DOMAIN patch = {"at"} /\ patch.at \in Nat
    BY <2>2, DaysAreNumbers
  <2>4. PatchFits(patch) /\ LeavesDated([op |-> "update", id |-> id, patch |-> patch])
    BY <2>3 DEF PatchFits, LeavesDated
  <2>. QED BY <2>1, <2>2, <2>4, BeginKeeps DEF CollectionNames
<1>. QED BY <1>1, <1>2, <1>3, <1>4

LEMMA BeginReflectionKeeps ==
    ASSUME IInv, NEW c \in Clients, BeginReflection(c)
    PROVE  IInv'
<1>1. PICK day \in {dayKeyOf(t) : t \in Dates}, goals \in BOOLEAN :
        \/ \E id \in findByDay(day) : Begin(c, "reflections", "update", id, [flag |-> goals])
        \/ /\ "reflections" \in Collections /\ api[c].op = "idle" /\ requests < MaxRequests
           /\ findByDay(day) = {} /\ Room
           /\ api' = [api EXCEPT ![c] =
                        [op |-> "create", id |-> 0, patch |-> [at |-> day, flag |-> goals]]]
           /\ requests' = requests + 1
           /\ UNCHANGED <<now, docs>>
  BY DEF BeginReflection
<1>2. day \in Nat
  BY DaysAreNumbers
<1>3. CASE \E id \in findByDay(day) : Begin(c, "reflections", "update", id, [flag |-> goals])
  <2>1. PICK id : Begin(c, "reflections", "update", id, [flag |-> goals])
    BY <1>3
  <2>2. PICK patch : patch = [flag |-> goals]
    OBVIOUS
  <2>3. DOMAIN patch = {"flag"} /\ patch.flag = goals
    BY <2>2
  <2>4. PatchFits(patch) /\ LeavesDated([op |-> "update", id |-> id, patch |-> patch])
    BY <2>3 DEF PatchFits, LeavesDated
  <2>. QED BY <2>1, <2>2, <2>4, BeginKeeps DEF CollectionNames
<1>4. CASE ~\E id \in findByDay(day) : Begin(c, "reflections", "update", id, [flag |-> goals])
  <2>. DEFINE q == [op |-> "create", id |-> 0, patch |-> [at |-> day, flag |-> goals]]
  <2>1. /\ q.op = "create" /\ q.patch.at = day /\ q.patch.flag = goals
        /\ DOMAIN q.patch = {"at", "flag"}
    OBVIOUS
  <2>2. /\ Accepts(c, q) /\ Room /\ "reflections" \in Collections
    BY <1>1, <1>4 DEF Accepts
  <2>. HIDE DEF q
  <2>3. Fits(q)
    BY <1>2, <2>1, <2>2 DEF Fits, PatchFits
  <2>4. LeavesDated(q)
    BY <2>1 DEF LeavesDated
  <2>. QED BY <2>2, <2>3, <2>4, AcceptKeeps
<1>. QED BY <1>3, <1>4

LEMMA BeginUpdateProblemKeeps ==
    ASSUME IInv, NEW c \in Clients, BeginUpdateProblem(c)
    PROVE  IInv'
<1>1. PICK id \in In("problems"), status \in Solving :
         Begin(c, "problems", "update", id, ProblemPatch(docs[id], status))
  BY DEF BeginUpdateProblem
<1>2. PICK patch : patch = ProblemPatch(docs[id], status)
  OBVIOUS
<1>3. now \in 0 .. now /\ status \in ProblemStatuses
  BY ConstantsAssumption DEF IInv, TypeOK, Times
<1>4. docs[id].status = "completed" => docs[id].doneAt # Absent
  BY DEF IInv, CompletedIsDated, Absent, In
<1>5. PatchFits(patch) /\ LeavesDated([op |-> "update", id |-> id, patch |-> patch])
  <2>1. CASE patch = [status |-> status, doneAt |-> now]
    <3>1. DOMAIN patch = {"status", "doneAt"} /\ patch.status = status /\ patch.doneAt = now
      BY <2>1
    <3>. QED BY <1>3, <3>1 DEF PatchFits, LeavesDated
  <2>2. CASE /\ patch = [status |-> status]
             /\ ~(status = "completed" /\ docs[id].status # "completed" /\ docs[id].doneAt = Absent)
    <3>1. DOMAIN patch = {"status"} /\ patch.status = status
      BY <2>2
    <3>. QED BY <1>3, <1>4, <2>2, <3>1 DEF PatchFits, LeavesDated
  <2>. QED BY <1>2, <2>1, <2>2 DEF ProblemPatch
<1>. QED BY <1>1, <1>2, <1>5, BeginKeeps DEF CollectionNames

\* The patch of each request on a revision.
RevisionPatch(op, patch) ==
    \/ /\ op = "complete" /\ DOMAIN patch = {"status", "doneAt"}
       /\ patch.status = "completed" /\ patch.doneAt = now
    \/ /\ op = "update" /\ {"status"} \subseteq DOMAIN patch /\ DOMAIN patch \subseteq {"status", "at"}
       /\ patch.status \in RevisionStatuses \ {"completed"}
       /\ "at" \in DOMAIN patch => patch.at \in Nat

LEMMA RevisionRequests ==
    ASSUME NEW c \in Clients, BeginUpdateRevision(c)
    PROVE  \E id, op, patch :
              op \in {"update", "complete"} /\ Begin(c, "revisions", op, id, patch)
              /\ RevisionPatch(op, patch)
<1>1. PICK id \in In("revisions") :
         \/ Begin(c, "revisions", "complete", id, [status |-> "completed", doneAt |-> now])
         \/ \E at \in Dates :
               \/ Begin(c, "revisions", "update", id, [status |-> "snoozed", at |-> at])
               \/ Begin(c, "revisions", "update", id, [status |-> "scheduled", at |-> at])
         \/ Begin(c, "revisions", "update", id, [status |-> "skipped"])
         \/ Begin(c, "revisions", "update", id, [status |-> "due"])
  BY DEF BeginUpdateRevision
<1>2. CASE Begin(c, "revisions", "complete", id, [status |-> "completed", doneAt |-> now])
  <2>1. RevisionPatch("complete", [status |-> "completed", doneAt |-> now])
    BY DEF RevisionPatch
  <2>. QED BY <1>2, <2>1
<1>3. ASSUME NEW at \in Dates, NEW status \in {"snoozed", "scheduled"},
             Begin(c, "revisions", "update", id, [status |-> status, at |-> at])
      PROVE  \E i, op, patch : op \in {"update", "complete"} /\ Begin(c, "revisions", op, i, patch)
                               /\ RevisionPatch(op, patch)
  <2>1. PICK patch : patch = [status |-> status, at |-> at]
    OBVIOUS
  <2>2. DOMAIN patch = {"status", "at"} /\ patch.status = status /\ patch.at \in Nat
    BY <2>1, ConstantsAssumption
  <2>3. RevisionPatch("update", patch)
    BY <2>2 DEF RevisionPatch, RevisionStatuses
  <2>. QED BY <1>3, <2>1, <2>3
<1>4. ASSUME NEW status \in {"skipped", "due"},
             Begin(c, "revisions", "update", id, [status |-> status])
      PROVE  \E i, op, patch : op \in {"update", "complete"} /\ Begin(c, "revisions", op, i, patch)
                               /\ RevisionPatch(op, patch)
  <2>1. PICK patch : patch = [status |-> status]
    OBVIOUS
  <2>2. DOMAIN patch = {"status"} /\ patch.status = status
    BY <2>1
  <2>3. RevisionPatch("update", patch)
    BY <2>2 DEF RevisionPatch, RevisionStatuses
  <2>. QED BY <1>4, <2>1, <2>3
<1>. QED BY <1>1, <1>2, <1>3, <1>4

LEMMA BeginUpdateRevisionKeeps ==
    ASSUME IInv, NEW c \in Clients, BeginUpdateRevision(c)
    PROVE  IInv'
<1>1. PICK id, op, patch :
         op \in {"update", "complete"} /\ Begin(c, "revisions", op, id, patch)
         /\ RevisionPatch(op, patch)
  BY RevisionRequests
<1>2. now \in 0 .. now
  BY ConstantsAssumption DEF IInv, TypeOK, Times
<1>3. PatchFits(patch) /\ LeavesDated([op |-> op, id |-> id, patch |-> patch])
  BY <1>1, <1>2 DEF RevisionPatch, PatchFits, LeavesDated, RevisionStatuses
<1>. QED BY <1>1, <1>3, BeginKeeps DEF CollectionNames

-----------------------------------------------------------------------------
(* Documents are written.                                                   *)

\* Requests that a write leaves alone or answers, or goes on with.
Settles ==
    /\ api' = [k \in Clients |-> api'[k]]
    /\ \A k \in Clients :
          \/ api'[k] = api[k] \/ api'[k].op = "idle"
          \/ api'[k].op = "rung" /\ Fits(api[k])'

LEMMA StillFit ==
    ASSUME IInv, Settles, DOMAIN docs \subseteq DOMAIN docs', now' = now
    PROVE  RequestsFit'
<1>1. \A k \in Clients : Fits(api[k])'
  BY DEF IInv, RequestsFit, Settles, Fits, PatchFits
<1>. QED BY <1>1 DEF RequestsFit, Settles

LEMMA RewriteKeeps ==
    ASSUME IInv, Settles, NEW id \in DOMAIN docs, NEW d \in Document,
           docs' = [docs EXCEPT ![id] = d],
           RoomLeft', UNCHANGED now, requests' \in 0 .. MaxRequests,
           \/ d = Blank
           \/ /\ d.collection = docs[id].collection /\ d.collection # "deleted"
              /\ d.doneAt = docs[id].doneAt \/ d.doneAt \in 0 .. now
              /\ d.status = "completed" => d.doneAt # Absent
    PROVE  IInv'
<1>1. /\ docs' \in Seq(Document) /\ Len(docs') = Len(docs) /\ DOMAIN docs' = DOMAIN docs
      /\ docs'[id] = d
      /\ \A i \in DOMAIN docs : i # id => docs'[i] = docs[i]
  BY WriteEffect DEF IInv, TypeOK
<1>2. /\ d.collection \in {"deleted", docs[id].collection}
      /\ d.collection = "deleted" => d = Blank
      /\ d.collection # "deleted" => d # Blank
      /\ d = Blank => d.doneAt = Absent
  BY BlankIsDocument
<1>3. \A k \in Clients : Fits(api[k])'
  BY <1>1, StillFit DEF RequestsFit
<1>4. \A i \in In("deleted")' : docs'[i] = Blank
  BY <1>1, <1>2 DEF IInv, TypeOK, In
<1>5. TypeOK'
  BY <1>1, <1>3, <1>4 DEF IInv, TypeOK, Fits
<1>7. DoneBefore'
  <2>1. d.doneAt # Absent => d.doneAt <= now
    BY <1>2, ConstantsAssumption DEF IInv, DoneBefore, TypeOK, Times
  <2>. QED BY <1>1, <2>1 DEF IInv, DoneBefore
<1>8. RequestsDate'
  <2>. SUFFICES ASSUME NEW k \in Clients, api'[k].op \in {"update", "complete"}
                PROVE  LeavesDated(api[k])'
    BY DEF RequestsDate, LeavesDated
  <2>1. api'[k] = api[k] /\ api[k].id \in DOMAIN docs /\ LeavesDated(api[k])
    BY DEF Settles, IInv, RequestsFit, RequestsDate, Fits
  <2>2. /\ docs'[api[k].id].collection # "deleted" => docs[api[k].id].collection # "deleted"
        /\ docs[api[k].id].doneAt # Absent /\ docs'[api[k].id].collection # "deleted"
           => docs'[api[k].id].doneAt # Absent
    BY <1>1, <1>2, <2>1 DEF Absent
  <2>. QED BY <2>1, <2>2 DEF LeavesDated
<1>9. CompletedIsDated'
  <2>. SUFFICES ASSUME NEW i \in DOMAIN docs', docs'[i].status = "completed"
                PROVE  docs'[i].doneAt \in 0 .. now
    BY DEF CompletedIsDated
  <2>1. CASE i # id
    BY <1>1, <2>1 DEF IInv, CompletedIsDated
  <2>2. CASE i = id
    <3>1. d.status = "completed" /\ d.doneAt # Absent
      BY <1>1, <2>2, BlankIsDocument
    <3>2. d.doneAt \in Nat /\ d.doneAt <= now
      BY <1>1, <1>7, <3>1, ConstantsAssumption DEF DoneBefore, Document, Times
    <3>. QED BY <1>1, <2>2, <3>2, ConstantsAssumption DEF IInv, TypeOK, Times
  <2>. QED BY <2>1, <2>2
<1>. QED BY <1>1, <1>5, <1>7, <1>8, <1>9, StillFit DEF IInv

LEMMA AppendKeeps ==
    ASSUME IInv, Settles, NEW d \in Document, docs' = Append(docs, d), RoomLeft',
           UNCHANGED now, requests' \in 0 .. MaxRequests,
           d.collection # "deleted", d.doneAt # Absent => d.doneAt \in 0 .. now,
           d.status = "completed" => d.doneAt # Absent
    PROVE  IInv'
<1>. DEFINE new == Len(docs) + 1
<1>1. /\ docs' \in Seq(Document) /\ Len(docs') = Len(docs) + 1 /\ Len(docs) \in Nat
      /\ DOMAIN docs' = DOMAIN docs \union {new}
      /\ new \notin DOMAIN docs /\ docs'[new] = d
      /\ \A i \in DOMAIN docs : docs'[i] = docs[i]
  BY AppendEffect DEF IInv, TypeOK
<1>. HIDE DEF new
<1>2. \A name : In(name)' = IF d.collection = name THEN In(name) \union {new} ELSE In(name)
  BY <1>1 DEF In
<1>3. RequestsFit' /\ \A k \in Clients : Fits(api[k])'
  BY <1>1, StillFit DEF RequestsFit
<1>4. TypeOK'
  <2>1. IsFiniteSet(Creating') /\ Cardinality(Creating') \in Nat
    BY FS_CardinalityType DEF RoomLeft
  <2>2. Len(docs') <= MaxDocs
    BY <1>1, <2>1, ConstantsAssumption DEF RoomLeft
  <2>3. \A i \in In("deleted")' : docs'[i] = Blank
    BY <1>1, <1>2 DEF IInv, TypeOK, In
  <2>. QED BY <1>1, <1>3, <2>2, <2>3 DEF IInv, TypeOK, Fits
<1>5. DoneBefore'
  BY <1>1 DEF IInv, DoneBefore
<1>6. RequestsDate'
  <2>. SUFFICES ASSUME NEW k \in Clients, api'[k].op \in {"update", "complete"}
                PROVE  LeavesDated(api[k])'
    BY DEF RequestsDate, LeavesDated
  <2>1. /\ api'[k] = api[k] /\ docs'[api[k].id] = docs[api[k].id] /\ LeavesDated(api[k])
    BY <1>1 DEF Settles, IInv, RequestsFit, RequestsDate, Fits
  <2>. QED BY <2>1 DEF LeavesDated
<1>7. CompletedIsDated'
  BY <1>1 DEF IInv, CompletedIsDated
<1>. QED BY <1>3, <1>4, <1>5, <1>6, <1>7 DEF IInv

LEMMA AnswerSettles ==
    ASSUME IInv, NEW c \in Clients, Answer(c)
    PROVE  /\ Settles /\ Creating' = Creating \ {c}
           /\ UNCHANGED now /\ requests' \in 0 .. MaxRequests
<1>1. api = [k \in Clients |-> api[k]] /\ Idle.op = "idle"
  BY DEF IInv, RequestsFit, Idle
<1>2. \A k \in Clients : api'[k] = IF k = c THEN Idle ELSE api[k]
  BY <1>1 DEF Answer
<1>3. api' = [k \in Clients |-> api'[k]]
  BY <1>1 DEF Answer
<1>4. Creating' = Creating \ {c}
  BY <1>1, <1>2 DEF Creating
<1>. QED BY <1>1, <1>2, <1>3, <1>4 DEF Settles, Answer, IInv, TypeOK

LEMMA AnswerLeavesRoom ==
    ASSUME IInv, NEW c \in Clients, Answer(c), Len(docs') = Len(docs)
    PROVE  RoomLeft'
<1>1. Creating' \subseteq Creating
  BY AnswerSettles
<1>2. IsFiniteSet(Creating') /\ Cardinality(Creating') <= Cardinality(Creating)
  BY <1>1, FS_Subset DEF IInv, RoomLeft
<1>3. Cardinality(Creating') \in Nat /\ Cardinality(Creating) \in Nat /\ Len(docs) \in Nat
  BY <1>2, FS_CardinalityType DEF IInv, RoomLeft, TypeOK
<1>. QED BY <1>2, <1>3, ConstantsAssumption DEF IInv, RoomLeft

LEMMA UpdateKeepsLength ==
    ASSUME IInv, NEW id, NEW patch, update(id, patch)
    PROVE  Len(docs') = Len(docs)
  BY DEF update, IInv, TypeOK

\* A patch that fits is merged into a document that is still there.
LEMMA UpdateKeeps ==
    ASSUME IInv, Settles, NEW id \in DOMAIN docs, NEW patch, PatchFits(patch),
           docs[id].collection # "deleted", update(id, patch), RoomLeft',
           UNCHANGED now, requests' \in 0 .. MaxRequests,
           LeavesDated([op |-> "update", id |-> id, patch |-> patch])
    PROVE  IInv'
<1>. DEFINE doc == [docs[id] EXCEPT !.updatedAt = now]
            d == Merged(doc, patch)
<1>1. now \in Times /\ docs[id] \in Document
  BY DocumentAt DEF IInv, TypeOK
<1>2. /\ doc \in Document /\ doc.collection = docs[id].collection /\ doc.status = docs[id].status
      /\ doc.doneAt = docs[id].doneAt /\ doc.at = docs[id].at
  BY <1>1 DEF Document
<1>3. docs' = [docs EXCEPT ![id] = d]
  BY DEF update
<1>. HIDE DEF doc
<1>4. /\ d \in Document /\ d.collection = doc.collection
      /\ d.status = IF "status" \in DOMAIN patch THEN patch.status ELSE doc.status
      /\ d.doneAt = IF "doneAt" \in DOMAIN patch THEN patch.doneAt ELSE doc.doneAt
      /\ d.at = IF "at" \in DOMAIN patch THEN patch.at ELSE doc.at
  BY <1>1, <1>2, MergedEffect
<1>. HIDE DEF d
<1>5. d.doneAt = docs[id].doneAt \/ d.doneAt \in 0 .. now
  BY <1>2, <1>4 DEF PatchFits
<1>6. ASSUME d.status = "completed" PROVE d.doneAt # Absent
  <2>1. \A t \in 0 .. now : t # Absent
    BY DEF Absent
  <2>2. docs[id].status = "completed" => docs[id].doneAt # Absent
    BY <2>1 DEF IInv, CompletedIsDated
  <2>3. "doneAt" \in DOMAIN patch => patch.doneAt # Absent
    BY <2>1 DEF PatchFits
  <2>4. "status" \in DOMAIN patch /\ patch.status = "completed" =>
            "doneAt" \in DOMAIN patch \/ docs[id].doneAt # Absent
    BY DEF LeavesDated
  <2>. QED BY <1>2, <1>4, <1>6, <2>2, <2>3, <2>4
<1>. QED BY <1>2, <1>3, <1>4, <1>5, <1>6, RewriteKeeps

\* What a request carries is merged into the document, or into none.
LEMMA RequestKeeps ==
    ASSUME IInv, NEW c \in Clients, api[c].op \in {"update", "complete"},
           update(api[c].id, api[c].patch),
           Settles, RoomLeft', UNCHANGED now, requests' \in 0 .. MaxRequests
    PROVE  IInv'
<1>1. PICK id, patch : id = api[c].id /\ patch = api[c].patch
  OBVIOUS
<1>2. update(id, patch) /\ id \in DOMAIN docs /\ PatchFits(patch)
  BY <1>1 DEF IInv, RequestsFit, Fits
<1>3. CASE docs[id].collection = "deleted"
  <2>1. docs[id] = Blank /\ docs' = docs /\ docs[id] \in Document
    BY <1>2, <1>3, DocumentAt DEF update, IInv, TypeOK, In
  <2>2. docs' = [docs EXCEPT ![id] = docs[id]]
    BY <1>2, <2>1 DEF IInv, TypeOK
  <2>. QED BY <1>2, <2>1, <2>2, RewriteKeeps
<1>4. CASE docs[id].collection # "deleted"
  <2>1. LeavesDated(api[c])
    BY DEF IInv, RequestsDate
  <2>2. LeavesDated([op |-> "update", id |-> id, patch |-> patch])
    BY <1>1, <2>1 DEF LeavesDated
  <2>. QED BY <1>2, <1>4, <2>2, UpdateKeeps
<1>. QED BY <1>3, <1>4

LEMMA WriteUpdateKeeps ==
    ASSUME IInv, NEW c \in Clients, WriteUpdate(c)
    PROVE  IInv'
<1>1. api[c].op = "update" /\ update(api[c].id, api[c].patch) /\ Answer(c)
  BY DEF WriteUpdate
<1>2. RoomLeft'
  BY <1>1, UpdateKeepsLength, AnswerLeavesRoom
<1>. QED BY <1>1, <1>2, AnswerSettles, RequestKeeps

\* A completion that goes on with the next rung has a place for it.
LEMMA WriteCompletionKeeps ==
    ASSUME IInv, NEW c \in Clients, WriteCompletion(c)
    PROVE  IInv'
<1>1. /\ api[c].op = "complete" /\ update(api[c].id, api[c].patch)
      /\ Len(docs') = Len(docs)
  BY UpdateKeepsLength DEF WriteCompletion
<1>2. CASE Answer(c)
  BY <1>1, <1>2, AnswerSettles, AnswerLeavesRoom, RequestKeeps
<1>3. CASE ~Answer(c)
  <2>1. PICK at \in Dates :
          /\ Room
          /\ api' = [api EXCEPT ![c] =
                       [op |-> "rung", id |-> 0, patch |-> [status |-> "scheduled", at |-> at]]]
          /\ UNCHANGED <<now, requests>>
    BY <1>3 DEF WriteCompletion
  <2>2. PICK q : q = [op |-> "rung", id |-> 0, patch |-> [status |-> "scheduled", at |-> at]]
    OBVIOUS
  <2>3. /\ q.op = "rung" /\ DOMAIN q.patch = {"status", "at"}
        /\ q.patch.status = "scheduled" /\ q.patch.at \in Nat
    BY <2>2, ConstantsAssumption
  <2>4. /\ api' = [k \in Clients |-> api'[k]]
        /\ \A k \in Clients : api'[k] = IF k = c THEN q ELSE api[k]
    BY <2>1, <2>2 DEF IInv, RequestsFit
  <2>5. "revisions" \in Collections /\ c \notin Creating
    BY <1>1 DEF IInv, RequestsFit, Fits, Creating
  <2>6. Fits(api[c])'
    BY <2>3, <2>4, <2>5 DEF Fits, PatchFits, RevisionStatuses
  <2>7. Settles
    BY <2>3, <2>4, <2>6 DEF Settles
  <2>8. Creating' = Creating \union {c}
    BY <2>3, <2>4 DEF Creating
  <2>9. RoomLeft'
    <3>1. /\ IsFiniteSet(Creating \union {c})
          /\ Cardinality(Creating \union {c}) = Cardinality(Creating) + 1
          /\ Cardinality(Creating) \in Nat /\ Len(docs) \in Nat
      BY <2>5, FS_AddElement, FS_CardinalityType DEF IInv, RoomLeft, TypeOK
    <3>2. Len(docs) + Cardinality(Creating \union {c}) <= MaxDocs
      BY <2>1, <3>1, ConstantsAssumption DEF Room
    <3>. QED BY <1>1, <2>8, <3>1, <3>2 DEF RoomLeft
  <2>. QED BY <1>1, <2>1, <2>7, <2>9, RequestKeeps DEF IInv, TypeOK
<1>. QED BY <1>2, <1>3

LEMMA RemoveDocumentKeeps ==
    ASSUME IInv, NEW c \in Clients, RemoveDocument(c)
    PROVE  IInv'
<1>1. PICK id : id = api[c].id
  OBVIOUS
<1>2. /\ docs' = [docs EXCEPT ![id] = Blank] /\ Answer(c) /\ id \in DOMAIN docs
      /\ Len(docs') = Len(docs)
  BY <1>1 DEF RemoveDocument, IInv, TypeOK, RequestsFit, Fits
<1>3. Settles /\ RoomLeft' /\ UNCHANGED now /\ requests' \in 0 .. MaxRequests
  BY <1>2, AnswerSettles, AnswerLeavesRoom
<1>. QED BY <1>2, <1>3, BlankIsDocument, RewriteKeeps

\* create writes one document at once.
LEMMA CreateKeeps ==
    ASSUME IInv, NEW name \in CollectionNames, NEW data \in Document,
           create(name, data), data.doneAt \in {Absent, now},
           data.status = "completed" => data.doneAt = now
    PROVE  IInv'
<1>. DEFINE d == Stored(name, data)
<1>1. /\ name \in Collections /\ Room /\ requests < MaxRequests
      /\ docs' = Append(docs, d)
      /\ requests' = requests + 1
      /\ UNCHANGED <<now, api>>
  BY DEF create
<1>2. /\ d \in Document /\ d.collection = name /\ d.status = data.status /\ d.doneAt = data.doneAt
  BY <1>1, StoredEffect DEF IInv, TypeOK
<1>. HIDE DEF d
<1>3. requests' \in 0 .. MaxRequests
  BY <1>1, ConstantsAssumption DEF IInv, TypeOK
<1>4. Settles /\ Creating' = Creating
  BY <1>1 DEF Settles, IInv, RequestsFit, Creating
<1>5. RoomLeft'
  <2>1. Len(docs) + Cardinality(Creating) < MaxDocs /\ IsFiniteSet(Creating)
    BY <1>1 DEF Room, Creating, IInv, RoomLeft
  <2>2. Cardinality(Creating) \in Nat
    BY <2>1, FS_CardinalityType
  <2>3. Len(docs') = Len(docs) + 1 /\ Len(docs) \in Nat
    BY <1>1, <1>2, AppendEffect DEF IInv, TypeOK
  <2>4. (Len(docs) + 1) + Cardinality(Creating) <= MaxDocs
    BY <2>1, <2>2, <2>3, ConstantsAssumption
  <2>. QED BY <1>4, <2>1, <2>3, <2>4 DEF RoomLeft
<1>6. now \in 0 .. now /\ now # Absent
  BY ConstantsAssumption DEF IInv, TypeOK, Times, Absent
<1>7. name # "deleted"
  BY DEF CollectionNames
<1>. QED BY <1>1, <1>2, <1>3, <1>4, <1>5, <1>6, <1>7, AppendKeeps

LEMMA CreatesKeep ==
    ASSUME IInv,
           createTask \/ createSession \/ createNote \/ createProblem \/ scheduleRevision
           \/ completeHabit
    PROVE  IInv'
<1>. USE BlankIsDocument, ConstantsAssumption
<1>1. now \in Times /\ now \in Nat
  BY DEF IInv, TypeOK, Times
<1>2. CASE createTask
  <2>1. PICK status \in Statuses, at \in Dates \union {Absent},
             reminderAt \in Reminders \union {Absent} :
          create("tasks", [Blank EXCEPT !.status = status, !.at = at, !.reminderAt = reminderAt,
                              !.doneAt = IF status = "completed" THEN now ELSE Absent])
    BY <1>2 DEF createTask
  <2>2. PICK data : data = [Blank EXCEPT !.status = status, !.at = at, !.reminderAt = reminderAt,
                              !.doneAt = IF status = "completed" THEN now ELSE Absent]
    OBVIOUS
  <2>3. data \in Document
    BY <1>1, <2>2, ZenonT(60) DEF Document
  <2>4. data.status = status /\ data.doneAt = IF status = "completed" THEN now ELSE Absent
    BY <2>2 DEF Document
  <2>. QED BY <2>1, <2>2, <2>3, <2>4, CreateKeeps DEF CollectionNames
<1>3. CASE createSession
  <2>1. PICK at \in Dates, minutes \in Minutes :
          create("study_sessions", [Blank EXCEPT !.at = at, !.durationMinutes = minutes])
    BY <1>3 DEF createSession
  <2>2. PICK data : data = [Blank EXCEPT !.at = at, !.durationMinutes = minutes]
    OBVIOUS
  <2>3. data \in Document /\ data.doneAt = Absent /\ data.status = "none"
    BY <2>2 DEF Document
  <2>. QED BY <2>1, <2>2, <2>3, CreateKeeps DEF CollectionNames
<1>4. CASE createNote
  <2>1. PICK archived \in BOOLEAN : create("notes", [Blank EXCEPT !.flag = archived])
    BY <1>4 DEF createNote
  <2>2. PICK data : data = [Blank EXCEPT !.flag = archived]
    OBVIOUS
  <2>3. data \in Document /\ data.doneAt = Absent /\ data.status = "none"
    BY <2>2 DEF Document
  <2>. QED BY <2>1, <2>2, <2>3, CreateKeeps DEF CollectionNames
<1>5. CASE createProblem
  <2>1. PICK status \in Solving :
          create("problems", [Blank EXCEPT !.status = status,
                                 !.doneAt = IF status = "completed" THEN now ELSE Absent])
    BY <1>5 DEF createProblem
  <2>2. PICK data : data = [Blank EXCEPT !.status = status,
                               !.doneAt = IF status = "completed" THEN now ELSE Absent]
    OBVIOUS
  <2>3. data \in Document
    BY <1>1, <2>2, ZenonT(60) DEF Document
  <2>4. data.status = status /\ data.doneAt = IF status = "completed" THEN now ELSE Absent
    BY <2>2 DEF Document
  <2>. QED BY <2>1, <2>2, <2>3, <2>4, CreateKeeps DEF CollectionNames
<1>6. CASE scheduleRevision
  <2>1. PICK at \in Dates : create("revisions", [Blank EXCEPT !.status = "scheduled", !.at = at])
    BY <1>6 DEF scheduleRevision
  <2>2. PICK data : data = [Blank EXCEPT !.status = "scheduled", !.at = at]
    OBVIOUS
  <2>3. data \in Document /\ data.doneAt = Absent /\ data.status = "scheduled"
    BY <2>2 DEF Document, RevisionStatuses
  <2>. QED BY <2>1, <2>2, <2>3, CreateKeeps DEF CollectionNames
<1>7. CASE completeHabit
  <2>1. PICK data : data = [Blank EXCEPT !.at = dayKey]
    OBVIOUS
  <2>2. dayKey \in Nat
    BY <1>1 DEF dayKey, dayKeyOf
  <2>3. data \in Document /\ data.doneAt = Absent /\ data.status = "none"
    BY <2>1, <2>2 DEF Document
  <2>. QED BY <1>7, <2>1, <2>3, CreateKeeps DEF completeHabit, CollectionNames
<1>. QED BY <1>2, <1>3, <1>4, <1>5, <1>6, <1>7

\* What a request of one write still had to create.
LEMMA CreationKeeps ==
    ASSUME IInv, NEW c \in Creating, NEW name \in {"reflections", "revisions"},
           name \in Collections, Answer(c),
           docs' = Append(docs, Stored(name, Merged(Blank, api[c].patch))),
           PatchFits(api[c].patch), "doneAt" \notin DOMAIN api[c].patch,
           "status" \in DOMAIN api[c].patch => api[c].patch.status # "completed"
    PROVE  IInv'
<1>1. PICK patch : patch = api[c].patch
  OBVIOUS
<1>. DEFINE data == Merged(Blank, patch)
            d == Stored(name, data)
<1>2. docs' = Append(docs, d) /\ now \in Times /\ c \in Clients
  BY <1>1 DEF IInv, TypeOK, Creating
<1>3. data \in Document /\ data.doneAt = Absent /\ data.status # "completed"
  BY <1>1, <1>2, BlankIsDocument, MergedEffect
<1>. HIDE DEF data
<1>4. d \in Document /\ d.collection = name /\ d.doneAt = Absent /\ d.status # "completed"
  BY <1>2, <1>3, StoredEffect
<1>. HIDE DEF d
<1>5. /\ Settles /\ UNCHANGED now /\ requests' \in 0 .. MaxRequests
      /\ Creating' = Creating \ {c}
  BY <1>2, AnswerSettles
<1>6. RoomLeft'
  <2>1. IsFiniteSet(Creating') /\ Cardinality(Creating') = Cardinality(Creating) - 1
    BY <1>5, FS_RemoveElement DEF IInv, RoomLeft
  <2>2. Len(docs') = Len(docs) + 1 /\ Len(docs) \in Nat
    BY <1>2, <1>4, AppendEffect DEF IInv, TypeOK
  <2>3. Cardinality(Creating) \in Nat
    BY FS_CardinalityType DEF IInv, RoomLeft
  <2>. QED BY <2>1, <2>2, <2>3, ConstantsAssumption DEF IInv, RoomLeft
<1>. QED BY <1>2, <1>4, <1>5, <1>6, AppendKeeps

LEMMA WriteReflectionKeeps ==
    ASSUME IInv, NEW c \in Clients, WriteReflection(c)
    PROVE  IInv'
<1>1. /\ c \in Creating /\ Answer(c) /\ PatchFits(api[c].patch)
      /\ docs' = Append(docs, Stored("reflections", Merged(Blank, api[c].patch)))
      /\ "reflections" \in Collections /\ DOMAIN api[c].patch = {"at", "flag"}
  BY DEF WriteReflection, Creating, IInv, RequestsFit, Fits
<1>. QED BY <1>1, CreationKeeps

LEMMA WriteRungKeeps ==
    ASSUME IInv, NEW c \in Clients, WriteRung(c)
    PROVE  IInv'
<1>1. /\ c \in Creating /\ Answer(c) /\ PatchFits(api[c].patch)
      /\ docs' = Append(docs, Stored("revisions", Merged(Blank, api[c].patch)))
      /\ "revisions" \in Collections /\ DOMAIN api[c].patch = {"status", "at"}
      /\ api[c].patch.status = "scheduled"
  BY DEF WriteRung, Creating, IInv, RequestsFit, Fits
<1>. QED BY <1>1, CreationKeeps

LEMMA NextKeeps == IInv /\ [Next]_vars => IInv'
<1>. SUFFICES ASSUME IInv, [Next]_vars PROVE IInv'
  OBVIOUS
<1>1. CASE Tick
  BY <1>1, TickKeeps
<1>2. CASE Create
  BY <1>2, CreatesKeep DEF Create
<1>3. ASSUME NEW c \in Clients, Request(c) PROVE IInv'
  BY <1>3, BeginUpdateTaskKeeps, BeginOtherKeeps, BeginReflectionKeeps,
     BeginUpdateProblemKeeps, BeginUpdateRevisionKeeps, WriteUpdateKeeps, WriteReflectionKeeps,
     WriteCompletionKeeps, WriteRungKeeps, RemoveDocumentKeeps DEF Request
<1>4. CASE UNCHANGED vars
  BY <1>4 DEF vars, IInv, TypeOK, RoomLeft, RequestsFit, DoneBefore, RequestsDate,
              CompletedIsDated, In, Creating, Fits, PatchFits, LeavesDated
<1>. QED BY <1>1, <1>2, <1>3, <1>4 DEF Next

\* The invariant the theorems follow from.
THEOREM Invariant == Spec => []IInv
  BY InitInvariant, NextKeeps, PTL DEF Spec

\* The documents keep their shape whatever the requests merge into them, deleted
\* ones stay as they were left, and no write finds the store full.
THEOREM TypeCorrect == Spec => []TypeOK
<1>1. IInv => TypeOK
  BY DEF IInv
<1>. QED BY <1>1, Invariant, PTL

\* A completed document is dated, for any number of requests that reopen, complete,
\* reschedule and delete it between the read and the write of another.
THEOREM CompletedWorkIsDated == Spec => []CompletedIsDated
<1>1. IInv => CompletedIsDated
  BY DEF IInv
<1>. QED BY <1>1, Invariant, PTL

=============================================================================
