--------------------- MODULE NotificationDeliveryProofs ---------------------
(***************************************************************************)
(* What holds of notification delivery for every number of users, devices, *)
(* records, workers and failures.                                          *)
(*                                                                         *)
(* A push is sent once, and once more for each failure, only because one   *)
(* call of notify enqueues the job of a record (SendersOk), one slot has   *)
(* it at a time (SlotsOk), and a job that is going to push has used up     *)
(* none of the failures it was charged for (PushesCounted).  The status    *)
(* that is written is the truth only because of what a slot that is        *)
(* through with its push knows of it (OutcomeKnown).                       *)
(***************************************************************************)
EXTENDS NotificationDelivery, TLAPS

\* Ids are given out once: what is not stored yet is unread, has no job and was not
\* pushed.  A job that is not done has an attempt left.
RecordsOk ==
    \A n \in Ids :
        /\ notes[n].status = "none" => ~notes[n].read /\ jobs[n].state = "none"
        /\ jobs[n].state = "none" => \A t \in Tokens : pushes[n][t] = 0
        /\ jobs[n].state # "done" => jobs[n].attemptsMade < Attempts

\* A request marks records that were stored.
UnreadStored == \A c \in Clients : \A n \in api[c].unread : notes[n].status # "none"

\* A call that is about to enqueue does so for a record that no other call stored.
SendersOk ==
    \A s \in Senders :
        sender[s].pc = "enqueue" =>
            /\ sender[s].id \in Ids
            /\ notes[sender[s].id].status # "none" /\ jobs[sender[s].id].state = "none"
            /\ \A r \in Senders \ {s} : sender[r].pc = "enqueue" => sender[r].id # sender[s].id

\* A slot has the only active run of its job.
SlotsOk ==
    \A w \in Workers :
        worker[w].pc # "idle" =>
            /\ worker[w].id \in Ids /\ jobs[worker[w].id].state = "active"
            /\ \A v \in Workers \ {w} : worker[v].pc # "idle" => worker[v].id # worker[w].id

BeforePush(n) ==
    \/ jobs[n].state = "waiting"
    \/ \E w \in Workers : worker[w].id = n /\ worker[w].pc \in {"list", "send"}

\* Each failure pays for one push more, ahead of it.
PushesCounted ==
    \A n \in Ids, t \in Tokens :
        pushes[n][t] <= 1 + faults /\ (BeforePush(n) => pushes[n][t] <= faults)

\* A slot that is through with its push knows whether a device took it.
OutcomeKnown ==
    /\ \A w \in Workers : worker[w].pc \in {"list", "send"} => ~worker[w].success
    /\ \A w \in Workers :
        worker[w].pc \in {"find", "prune", "update"} =>
            IF worker[w].success THEN \E t \in Tokens : pushes[worker[w].id][t] > 0
            ELSE faults = 0 => \A t \in Tokens : pushes[worker[w].id][t] = 0
    /\ \A n \in Ids : faults = 0 /\ notes[n].status = "failed" => jobs[n].state = "done"

IInv ==
    /\ TypeOK /\ RecordsOk /\ UnreadStored /\ SendersOk /\ SlotsOk
    /\ PushesCounted /\ OutcomeKnown /\ StatusIsTold

-----------------------------------------------------------------------------
(* The values the handlers start from and compute.                          *)

LEMMA InitialRecords ==
    /\ NoNotification \in Notification /\ DEFAULT_PREFERENCES \in NotificationPreferences
    /\ IdleSender \in Sender /\ IdleRequest \in Request /\ IdleSlot \in WorkerSlot
<1>1. /\ (CHOOSE u \in Users : TRUE) \in Users /\ (CHOOSE t \in Tokens : TRUE) \in Tokens
      /\ (CHOOSE type \in Types : TRUE) \in Types
  BY ConstantsAssumption
<1>2. NoNotification \in Notification
  BY <1>1 DEF NoNotification, Notification
<1>3. DEFAULT_PREFERENCES \in NotificationPreferences
  BY DEF DEFAULT_PREFERENCES, NotificationPreferences, QuietHours
<1>4. IdleSender \in Sender
  BY <1>1, <1>3, ConstantsAssumption DEF IdleSender, Sender
<1>5. IdleRequest \in Request
  BY <1>1, <1>3, ConstantsAssumption DEF IdleRequest, Request
<1>6. IdleSlot \in WorkerSlot
  BY ConstantsAssumption DEF IdleSlot, WorkerSlot
<1>. QED BY <1>2, <1>3, <1>4, <1>5, <1>6

\* A field that a request does not carry keeps its value.
LEMMA CarriedType ==
    ASSUME NEW S, NEW field \in SUBSET S, NEW current \in S
    PROVE  Carried(field, current) \in S
  BY DEF Carried

LEMMA MergeType ==
    ASSUME NEW current \in NotificationPreferences, NEW edit \in Edits
    PROVE  Merge(current, edit) \in NotificationPreferences
<1>1. /\ edit.pushEnabled \subseteq BOOLEAN /\ edit.quietHours \subseteq QuietHours
      /\ \A type \in Types : edit.categories[type] \subseteq BOOLEAN
  BY ConstantsAssumption
<1>2. /\ current.pushEnabled \in BOOLEAN /\ current.quietHours \in QuietHours
      /\ \A type \in Types : current.categories[type] \in BOOLEAN
  BY DEF NotificationPreferences
<1>3. Carried(edit.pushEnabled, current.pushEnabled) \in BOOLEAN
  BY <1>1, <1>2, CarriedType
<1>4. Carried(edit.quietHours, current.quietHours) \in QuietHours
  BY <1>1, <1>2, CarriedType
<1>5. \A type \in Types : Carried(edit.categories[type], current.categories[type]) \in BOOLEAN
  BY <1>1, <1>2, CarriedType
<1>. QED BY <1>3, <1>4, <1>5 DEF Merge, NotificationPreferences

-----------------------------------------------------------------------------
(* The invariant holds at the start.                                        *)

LEMMA InitInvariant == Init => IInv
<1>. SUFFICES ASSUME Init PROVE IInv
  OBVIOUS
<1>. USE DEF Init
<1>1. TypeOK
  BY InitialRecords, ConstantsAssumption DEF TypeOK, Job
<1>2. RecordsOk /\ UnreadStored
  BY ConstantsAssumption DEF RecordsOk, UnreadStored, NoNotification, IdleRequest
<1>3. SendersOk /\ SlotsOk
  BY DEF SendersOk, SlotsOk, IdleSender, IdleSlot
<1>4. PushesCounted
  BY DEF PushesCounted
<1>5. OutcomeKnown /\ StatusIsTold
  BY DEF OutcomeKnown, StatusIsTold, IdleSlot, NoNotification
<1>. QED BY <1>1, <1>2, <1>3, <1>4, <1>5 DEF IInv

-----------------------------------------------------------------------------
(* Steps of the API requests, and the clock.                                *)

\* A step that only marks records as read leaves the deliveries in order.
LEMMA BystanderStep ==
    ASSUME IInv, TypeOK', UNCHANGED <<jobs, sender, worker, pushes>>, faults' >= faults,
           \A n \in Ids : \/ notes'[n] = notes[n]
                          \/ notes[n].status # "none" /\ notes'[n].status = "read",
           \A c \in Clients : \A n \in api'[c].unread : notes[n].status # "none"
    PROVE  IInv'
<1>1. faults \in Nat /\ faults' \in Nat
  BY ConstantsAssumption DEF IInv, TypeOK
<1>2. RecordsOk' /\ SendersOk' /\ SlotsOk'
  BY DEF IInv, RecordsOk, SendersOk, SlotsOk
<1>3. UnreadStored'
  <2>1. \A c \in Clients : api'[c].unread \subseteq Ids
    BY DEF TypeOK, Request
  <2>. QED BY <2>1 DEF UnreadStored
<1>4. PushesCounted'
  BY <1>1 DEF IInv, TypeOK, PushesCounted, BeforePush
<1>5. OutcomeKnown'
  BY <1>1 DEF IInv, OutcomeKnown
<1>6. StatusIsTold'
  BY <1>1 DEF IInv, StatusIsTold
<1>. QED BY <1>2, <1>3, <1>4, <1>5, <1>6 DEF IInv

\* An idle client's request, or an answer, fits its record.
LEMMA GotoFits ==
    ASSUME IInv, NEW c \in Clients, NEW request \in Request, Goto(c, request),
           \A n \in request.unread : notes[n].status # "none"
    PROVE  /\ api' \in [Clients -> Request]
           /\ \A d \in Clients : \A n \in api'[d].unread : notes[n].status # "none"
  BY DEF IInv, TypeOK, UnreadStored, Goto

LEMMA DoneFits ==
    ASSUME IInv, NEW c \in Clients, Done(c)
    PROVE  /\ api' \in [Clients -> Request]
           /\ \A d \in Clients : \A n \in api'[d].unread : notes[n].status # "none"
  BY GotoFits, InitialRecords DEF Done, IdleRequest

LEMMA ReceiveKeeps ==
    ASSUME IInv, NEW c \in Clients, Receive(c)
    PROVE  IInv'
<1>1. ASSUME NEW op, NEW request \in Request, Accept(c, op, request),
             \A n \in request.unread : notes[n].status # "none"
      PROVE  IInv'
  <2>1. /\ api' \in [Clients -> Request]
        /\ \A d \in Clients : \A n \in api'[d].unread : notes[n].status # "none"
    BY <1>1, GotoFits DEF Accept
  <2>2. TypeOK'
    BY <1>1, <2>1 DEF Accept, IInv, TypeOK
  <2>. QED BY <1>1, <2>1, <2>2, BystanderStep, ConstantsAssumption DEF Accept, IInv, TypeOK
<1>2. DOMAIN devices \subseteq 0 .. MaxDocs
  BY ConstantsAssumption DEF IInv, TypeOK, Docs
<1>3. PICK user \in Users :
        \/ \E token \in Tokens : BeginRegister(c, user, token) \/ BeginUnregister(c, user, token)
        \/ \E n \in Ids : BeginMarkRead(c, user, n)
        \/ BeginMarkAllRead(c, user)
        \/ \E edit \in Edits : BeginEdit(c, user, edit)
  BY DEF Receive
<1>0. IdleRequest.unread = {}
  BY DEF IdleRequest
<1>4. ASSUME NEW token \in Tokens, BeginRegister(c, user, token) PROVE IInv'
  <2>1. [IdleRequest EXCEPT !.pc = "create", !.user = user, !.token = token] \in Request
    BY InitialRecords DEF Request
  <2>2. ASSUME NEW d \in findByToken(token)
        PROVE  [IdleRequest EXCEPT !.pc = "update", !.user = user, !.doc = d] \in Request
    BY <1>2, InitialRecords DEF Request, findByToken
  <2>3. [IdleRequest EXCEPT !.pc = "create", !.user = user, !.token = token].unread = {}
    BY <1>0, InitialRecords DEF Request
  <2>4. ASSUME NEW d
        PROVE  [IdleRequest EXCEPT !.pc = "update", !.user = user, !.doc = d].unread = {}
    BY <1>0, InitialRecords DEF Request
  <2>. QED BY <1>1, <1>4, <2>1, <2>2, <2>3, <2>4 DEF BeginRegister
<1>5. ASSUME NEW token \in Tokens, BeginUnregister(c, user, token) PROVE IInv'
  <2>1. ASSUME NEW d \in findByToken(token)
        PROVE  [IdleRequest EXCEPT !.pc = "remove", !.doc = d] \in Request
    BY <1>2, InitialRecords DEF Request, findByToken
  <2>2. ASSUME NEW d PROVE [IdleRequest EXCEPT !.pc = "remove", !.doc = d].unread = {}
    BY <1>0, InitialRecords DEF Request
  <2>. QED BY <1>1, <1>5, <2>1, <2>2 DEF BeginUnregister
<1>6. ASSUME NEW unread \in SUBSET Unread(user)
      PROVE  /\ [IdleRequest EXCEPT !.pc = "mark", !.unread = unread] \in Request
             /\ \A n \in [IdleRequest EXCEPT !.pc = "mark", !.unread = unread].unread :
                    notes[n].status # "none"
  BY InitialRecords DEF Request, Unread
<1>7. ASSUME NEW n \in Ids, BeginMarkRead(c, user, n) PROVE IInv'
  <2>1. {n} \in SUBSET Unread(user)
    BY <1>7 DEF BeginMarkRead
  <2>. QED BY <1>1, <1>6, <1>7, <2>1 DEF BeginMarkRead
<1>8. CASE BeginMarkAllRead(c, user)
  BY <1>1, <1>6, <1>8 DEF BeginMarkAllRead
<1>9. ASSUME NEW edit \in Edits, BeginEdit(c, user, edit) PROVE IInv'
  <2>1. Merge(prefs[user], edit) \in NotificationPreferences
    BY MergeType DEF IInv, TypeOK
  <2>2. [IdleRequest EXCEPT !.pc = "preferences", !.user = user,
                            !.prefs = Merge(prefs[user], edit)] \in Request
    BY <2>1, InitialRecords DEF Request
  <2>3. [IdleRequest EXCEPT !.pc = "preferences", !.user = user,
                            !.prefs = Merge(prefs[user], edit)].unread = {}
    BY <1>0, InitialRecords DEF Request
  <2>. QED BY <1>1, <1>9, <2>2, <2>3 DEF BeginEdit
<1>. QED BY <1>3, <1>4, <1>5, <1>7, <1>8, <1>9

LEMMA ServeKeeps ==
    ASSUME IInv, NEW c \in Clients, Serve(c)
    PROVE  IInv'
<1>1. api[c] \in Request /\ IdleRequest \in Request
  BY InitialRecords DEF IInv, TypeOK
<1>2. faults >= faults
  BY ConstantsAssumption DEF IInv, TypeOK
<1>3. CASE CreateDevice(c)
  <2>1. /\ api' \in [Clients -> Request]
        /\ \A d \in Clients : \A n \in api'[d].unread : notes[n].status # "none"
    BY <1>3, DoneFits DEF CreateDevice
  <2>2. nextDoc \in Docs /\ nextDoc' = nextDoc + 1 /\ nextDoc' \in 1 .. MaxDocs + 1
    BY <1>3, ConstantsAssumption DEF IInv, TypeOK, CreateDevice, Docs
  <2>3. [userId |-> api[c].user, token |-> api[c].token] \in DeviceToken
    BY <1>1 DEF Request, DeviceToken
  <2>4. /\ DOMAIN devices' \in SUBSET Docs
        /\ \A d \in DOMAIN devices' : devices'[d] \in DeviceToken /\ d < nextDoc'
    BY <1>3, <2>2, <2>3 DEF IInv, TypeOK, CreateDevice, Docs
  <2>5. TypeOK'
    BY <1>3, <2>1, <2>2, <2>4 DEF IInv, TypeOK, CreateDevice
  <2>. QED BY <1>2, <1>3, <2>1, <2>5, BystanderStep DEF CreateDevice
<1>4. CASE UpdateDevice(c)
  <2>1. /\ api' \in [Clients -> Request]
        /\ \A d \in Clients : \A n \in api'[d].unread : notes[n].status # "none"
    BY <1>4, DoneFits DEF UpdateDevice
  <2>2. ASSUME NEW device \in DeviceToken
        PROVE  [device EXCEPT !.userId = api[c].user] \in DeviceToken
    BY <1>1 DEF Request, DeviceToken
  <2>3. /\ DOMAIN devices' \in SUBSET Docs
        /\ \A d \in DOMAIN devices' : devices'[d] \in DeviceToken /\ d < nextDoc
    BY <1>4, <2>2 DEF IInv, TypeOK, UpdateDevice
  <2>4. TypeOK'
    BY <1>4, <2>1, <2>3 DEF IInv, TypeOK, UpdateDevice
  <2>. QED BY <1>2, <1>4, <2>1, <2>4, BystanderStep DEF UpdateDevice
<1>5. CASE RemoveDevice(c)
  <2>1. /\ api' \in [Clients -> Request]
        /\ \A d \in Clients : \A n \in api'[d].unread : notes[n].status # "none"
    BY <1>5, DoneFits DEF RemoveDevice
  <2>2. TypeOK'
    BY <1>5, <2>1 DEF IInv, TypeOK, RemoveDevice, Without
  <2>. QED BY <1>2, <1>5, <2>1, <2>2, BystanderStep DEF RemoveDevice
<1>6. ASSUME NEW n \in Ids, MarkOne(c, n) PROVE IInv'
  <2>1. /\ api[c].unread \in SUBSET Ids /\ n \in api[c].unread
        /\ \A m \in api[c].unread : notes[m].status # "none"
    BY <1>1, <1>6 DEF Request, MarkOne, IInv, UnreadStored
  <2>2. [api[c] EXCEPT !.unread = @ \ {n}] \in Request
    BY <1>1 DEF Request
  <2>3. [api[c] EXCEPT !.unread = @ \ {n}].unread = api[c].unread \ {n}
    BY <1>1 DEF Request
  <2>4. /\ api' \in [Clients -> Request]
        /\ \A d \in Clients : \A m \in api'[d].unread : notes[m].status # "none"
    <3>1. CASE Done(c)
      BY <3>1, DoneFits
    <3>2. CASE Goto(c, [api[c] EXCEPT !.unread = @ \ {n}])
      BY <3>2, <2>1, <2>2, <2>3, GotoFits
    <3>. QED BY <1>6, <3>1, <3>2 DEF MarkOne
  <2>5. \A m \in Ids : notes'[m] = IF m = n THEN [notes[n] EXCEPT !.read = TRUE, !.status = "read"]
                                   ELSE notes[m]
    BY <1>6 DEF MarkOne, IInv, TypeOK
  <2>6. notes' \in [Ids -> Notification]
    BY <1>6, ZenonT(60) DEF MarkOne, IInv, TypeOK, Notification
  <2>7. \A m \in Ids : \/ notes'[m] = notes[m]
                       \/ notes[m].status # "none" /\ notes'[m].status = "read"
    BY <2>1, <2>5 DEF IInv, TypeOK, Notification
  <2>8. TypeOK'
    BY <1>6, <2>4, <2>6 DEF MarkOne, IInv, TypeOK
  <2>. QED BY <1>2, <1>6, <2>4, <2>7, <2>8, BystanderStep DEF MarkOne
<1>7. CASE WritePreferences(c)
  <2>1. /\ api' \in [Clients -> Request]
        /\ \A d \in Clients : \A n \in api'[d].unread : notes[n].status # "none"
    BY <1>7, DoneFits DEF WritePreferences
  <2>2. TypeOK'
    BY <1>1, <1>7, <2>1 DEF IInv, TypeOK, WritePreferences, Request
  <2>. QED BY <1>2, <1>7, <2>1, <2>2, BystanderStep DEF WritePreferences
<1>. QED BY <1>3, <1>4, <1>5, <1>6, <1>7 DEF Serve

LEMMA RequestFailsKeeps ==
    ASSUME IInv, NEW c \in Clients, RequestFails(c)
    PROVE  IInv'
<1>1. faults \in 0 .. MaxFaults /\ faults' \in 0 .. MaxFaults /\ faults' >= faults
  BY ConstantsAssumption DEF IInv, TypeOK, RequestFails
<1>2. /\ api' \in [Clients -> Request]
      /\ \A d \in Clients : \A n \in api'[d].unread : notes[n].status # "none"
  BY DoneFits DEF RequestFails
<1>3. TypeOK'
  BY <1>1, <1>2 DEF RequestFails, IInv, TypeOK
<1>. QED BY <1>1, <1>2, <1>3, BystanderStep DEF RequestFails

LEMMA HourPassesKeeps ==
    ASSUME IInv, HourPasses
    PROVE  IInv'
<1>1. TypeOK'
  BY DEF HourPasses, IInv, TypeOK
<1>2. faults' >= faults
  BY ConstantsAssumption DEF HourPasses, IInv, TypeOK
<1>3. \A c \in Clients : \A n \in api'[c].unread : notes[n].status # "none"
  BY DEF HourPasses, IInv, UnreadStored
<1>. QED BY <1>1, <1>2, <1>3, BystanderStep DEF HourPasses

-----------------------------------------------------------------------------
(* Steps of notify.                                                         *)

\* A call that does not go on to enqueue, and that stored nothing, leaves the
\* deliveries in order.
LEMMA CallStep ==
    ASSUME IInv, NEW s \in Senders, NEW call \in Sender, Call(s, call), call.pc # "enqueue",
           faults' \in faults .. MaxFaults,
           UNCHANGED <<hour, prefs, notes, devices, nextDoc, jobs, api, worker, pushes>>
    PROVE  IInv'
<1>1. faults \in Nat /\ faults' \in Nat /\ faults' >= faults /\ faults' <= MaxFaults
  BY ConstantsAssumption DEF IInv, TypeOK
<1>2. /\ sender' \in [Senders -> Sender]
      /\ \A r \in Senders : sender'[r] = IF r = s THEN call ELSE sender[r]
  BY DEF IInv, TypeOK, Call
<1>3. TypeOK'
  BY <1>1, <1>2, ConstantsAssumption DEF IInv, TypeOK
<1>4. RecordsOk' /\ UnreadStored' /\ SlotsOk'
  BY DEF IInv, RecordsOk, UnreadStored, SlotsOk
<1>5. SendersOk'
  BY <1>2 DEF IInv, SendersOk
<1>6. PushesCounted'
  BY <1>1 DEF IInv, TypeOK, PushesCounted, BeforePush
<1>7. OutcomeKnown' /\ StatusIsTold'
  BY <1>1 DEF IInv, OutcomeKnown, StatusIsTold
<1>. QED BY <1>3, <1>4, <1>5, <1>6, <1>7 DEF IInv

LEMMA LoadPreferencesKeeps ==
    ASSUME IInv, NEW s \in Senders, NEW user \in Users, NEW type \in Types,
           LoadPreferences(s, user, type)
    PROVE  IInv'
<1>1. faults \in 0 .. MaxFaults /\ MaxFaults \in Nat
  BY ConstantsAssumption DEF IInv, TypeOK
<1>2. prefs[user] \in NotificationPreferences
  BY DEF IInv, TypeOK
<1>3. ASSUME NEW p \in NotificationPreferences
      PROVE  /\ [IdleSender EXCEPT !.pc = "persist", !.user = user, !.type = type, !.prefs = p]
                    \in Sender
             /\ [IdleSender EXCEPT !.pc = "persist", !.user = user, !.type = type,
                                    !.prefs = p].pc = "persist"
  BY InitialRecords DEF Sender
<1>4. /\ [IdleSender EXCEPT !.pc = "persist", !.user = user, !.type = type] \in Sender
      /\ [IdleSender EXCEPT !.pc = "persist", !.user = user, !.type = type].pc = "persist"
  BY InitialRecords DEF Sender
<1>5. CASE /\ Call(s, [IdleSender EXCEPT !.pc = "persist", !.user = user, !.type = type,
                                         !.prefs = prefs[user]])
           /\ UNCHANGED faults
  <2>1. faults' \in faults .. MaxFaults
    BY <1>1, <1>5
  <2>. QED BY <1>2, <1>3, <1>5, <2>1, CallStep DEF LoadPreferences
<1>6. CASE /\ faults < MaxFaults /\ faults' = faults + 1
           /\ Call(s, [IdleSender EXCEPT !.pc = "persist", !.user = user, !.type = type])
  <2>1. faults' \in faults .. MaxFaults
    BY <1>1, <1>6
  <2>. QED BY <1>4, <1>6, <2>1, CallStep DEF LoadPreferences
<1>. QED BY <1>5, <1>6 DEF LoadPreferences

LEMMA NotifyFailsKeeps ==
    ASSUME IInv, NEW s \in Senders, NotifyFails(s)
    PROVE  IInv'
<1>1. faults' \in faults .. MaxFaults
  BY ConstantsAssumption DEF IInv, TypeOK, NotifyFails
<1>. QED BY <1>1, InitialRecords, CallStep DEF NotifyFails, IdleSender

LEMMA PersistKeeps ==
    ASSUME IInv, NEW s \in Senders, Persist(s)
    PROVE  IInv'
<1>1. faults \in Nat /\ sender[s] \in Sender /\ sender[s].pc = "persist"
  BY ConstantsAssumption DEF IInv, TypeOK, Persist
<1>2. PICK n \in Ids :
        /\ \A m \in Ids : notes[m].status = "none" <=> n <= m
        /\ notes' = [notes EXCEPT ![n] = [user |-> sender[s].user, type |-> sender[s].type,
                                          status |-> "pending", read |-> FALSE]]
        /\ Call(s, IF Suppressed(sender[s].prefs, sender[s].type) THEN IdleSender
                   ELSE [IdleSender EXCEPT !.pc = "enqueue", !.id = n])
  BY DEF Persist
<1>3. notes[n].status = "none" /\ jobs[n].state = "none"
  BY <1>2 DEF IInv, RecordsOk, Ids
<1>4. /\ notes' \in [Ids -> Notification]
      /\ notes'[n].status = "pending" /\ ~notes'[n].read
      /\ \A m \in Ids \ {n} : notes'[m] = notes[m]
  BY <1>1, <1>2 DEF IInv, TypeOK, Sender, Notification
<1>5. /\ [IdleSender EXCEPT !.pc = "enqueue", !.id = n] \in Sender
      /\ [IdleSender EXCEPT !.pc = "enqueue", !.id = n].id = n
      /\ IdleSender \in Sender /\ IdleSender.pc = "idle"
  <2>1. n \in 0 .. MaxNotes
    BY ConstantsAssumption DEF Ids
  <2>2. IdleSender.pc = "idle"
    BY DEF IdleSender
  <2>. QED BY <2>1, <2>2, InitialRecords DEF Sender
<1>6. /\ sender' \in [Senders -> Sender]
      /\ sender'[s].pc = "enqueue" => sender'[s].id = n
      /\ \A r \in Senders \ {s} : sender'[r] = sender[r]
  BY <1>2, <1>5 DEF IInv, TypeOK, Call
<1>7. TypeOK'
  BY <1>4, <1>6 DEF Persist, IInv, TypeOK
<1>8. RecordsOk'
  BY <1>3, <1>4 DEF Persist, IInv, RecordsOk
<1>9. UnreadStored'
  <2>1. \A c \in Clients : api[c].unread \subseteq Ids
    BY DEF IInv, TypeOK, Request
  <2>. QED BY <1>4, <2>1 DEF Persist, IInv, UnreadStored
<1>10. SendersOk'
  BY <1>3, <1>4, <1>6 DEF Persist, IInv, SendersOk
<1>11. SlotsOk'
  BY DEF Persist, IInv, SlotsOk
<1>12. PushesCounted'
  BY DEF Persist, IInv, PushesCounted, BeforePush
<1>13. OutcomeKnown'
  BY <1>4 DEF Persist, IInv, OutcomeKnown
<1>14. StatusIsTold'
  BY <1>4 DEF Persist, IInv, StatusIsTold
<1>. QED BY <1>7, <1>8, <1>9, <1>10, <1>11, <1>12, <1>13, <1>14 DEF IInv

LEMMA EnqueueKeeps ==
    ASSUME IInv, NEW s \in Senders, enqueueSendPush(s)
    PROVE  IInv'
<1>1. PICK n \in Ids : n = sender[s].id
  BY DEF enqueueSendPush, IInv, SendersOk
<1>2. /\ faults \in Nat /\ jobs[n] \in Job /\ jobs[n].state = "none"
      /\ notes[n].status # "none" /\ sender[s].pc = "enqueue"
  BY <1>1, ConstantsAssumption DEF enqueueSendPush, IInv, TypeOK, SendersOk
<1>3. /\ jobs' \in [Ids -> Job]
      /\ jobs'[n].state \in {"none", "waiting"} /\ jobs'[n].attemptsMade = jobs[n].attemptsMade
      /\ \A m \in Ids \ {n} : jobs'[m] = jobs[m]
  BY <1>1, <1>2 DEF enqueueSendPush, IInv, TypeOK, Job
<1>4. /\ sender' \in [Senders -> Sender]
      /\ sender'[s].pc = "idle"
      /\ \A r \in Senders \ {s} : sender'[r] = sender[r]
  BY InitialRecords DEF enqueueSendPush, IInv, TypeOK, Call, IdleSender
<1>5. TypeOK'
  BY <1>3, <1>4 DEF enqueueSendPush, IInv, TypeOK
<1>6. RecordsOk'
  BY <1>2, <1>3, ZenonT(60) DEF enqueueSendPush, IInv, RecordsOk
<1>7. UnreadStored'
  BY DEF enqueueSendPush, IInv, UnreadStored
<1>8. SendersOk'
  BY <1>1, <1>2, <1>3, <1>4 DEF enqueueSendPush, IInv, SendersOk
<1>9. SlotsOk'
  <2>1. \A w \in Workers : worker[w].pc # "idle" => worker[w].id \in Ids \ {n}
    BY <1>2 DEF IInv, SlotsOk
  <2>2. \A w \in Workers : worker[w].pc # "idle" => jobs'[worker[w].id].state = "active"
    BY <1>3, <2>1 DEF IInv, SlotsOk
  <2>3. worker' = worker
    BY DEF enqueueSendPush
  <2>. QED BY <2>2, <2>3 DEF IInv, SlotsOk
<1>10. PushesCounted'
  <2>1. \A t \in Tokens : pushes[n][t] <= faults
    BY <1>2 DEF IInv, RecordsOk
  <2>2. \A m \in Ids \ {n} : BeforePush(m)' => BeforePush(m)
    BY <1>3 DEF enqueueSendPush, BeforePush
  <2>. QED BY <2>1, <2>2 DEF enqueueSendPush, IInv, PushesCounted
<1>11. OutcomeKnown'
  BY <1>2, <1>3 DEF enqueueSendPush, IInv, OutcomeKnown
<1>12. StatusIsTold'
  BY DEF enqueueSendPush, IInv, StatusIsTold
<1>. QED BY <1>5, <1>6, <1>7, <1>8, <1>9, <1>10, <1>11, <1>12 DEF IInv

-----------------------------------------------------------------------------
(* Steps of the worker.                                                     *)

LEMMA OccupyFits ==
    ASSUME TypeOK, NEW w \in Workers, NEW slot \in WorkerSlot, Occupy(w, slot)
    PROVE  /\ worker' \in [Workers -> WorkerSlot] /\ worker'[w] = slot
           /\ \A v \in Workers \ {w} : worker'[v] = worker[v]
  BY DEF TypeOK, Occupy

\* What a slot knows of a push it is through with.
LEMMA SlotKnows ==
    ASSUME IInv, NEW w \in Workers, worker[w].pc # "idle"
    PROVE  /\ worker[w] \in WorkerSlot /\ worker[w].id \in Ids
           /\ jobs[worker[w].id] \in Job /\ jobs[worker[w].id].state = "active"
           /\ notes[worker[w].id].status # "none"
           /\ \A v \in Workers \ {w} : worker[v].pc # "idle" => worker[v].id # worker[w].id
           /\ worker[w].pc \in {"find", "prune", "update"} =>
                IF worker[w].success THEN \E t \in Tokens : pushes[worker[w].id][t] > 0
                ELSE faults = 0 => \A t \in Tokens : pushes[worker[w].id][t] = 0
<1>1. worker[w].id \in Ids /\ jobs[worker[w].id].state = "active"
  BY DEF IInv, SlotsOk
<1>. QED BY <1>1 DEF IInv, TypeOK, SlotsOk, RecordsOk, OutcomeKnown

\* A slot that goes on with its job and pushes nothing leaves the deliveries in order.
LEMMA SlotStep ==
    ASSUME IInv, NEW w \in Workers, NEW slot \in WorkerSlot, Occupy(w, slot),
           worker[w].pc # "idle", slot.pc # "idle", slot.id = worker[w].id,
           slot.pc \in {"list", "send"} => worker[w].pc \in {"list", "send"} /\ ~slot.success,
           slot.pc \in {"find", "prune", "update"} =>
                IF slot.success THEN \E t \in Tokens : pushes[slot.id][t] > 0
                ELSE faults' = 0 => \A t \in Tokens : pushes[slot.id][t] = 0,
           faults' \in faults .. MaxFaults,
           devices' = devices \/ \E d : devices' = Without(d),
           UNCHANGED <<hour, prefs, notes, nextDoc, jobs, sender, api, pushes>>
    PROVE  IInv'
<1>1. faults \in Nat /\ faults' \in 0 .. MaxFaults /\ faults' >= faults
  BY ConstantsAssumption DEF IInv, TypeOK
<1>2. /\ worker' \in [Workers -> WorkerSlot] /\ worker'[w] = slot
      /\ \A v \in Workers \ {w} : worker'[v] = worker[v]
  BY OccupyFits DEF IInv
<1>3. /\ DOMAIN devices' \in SUBSET Docs
      /\ \A d \in DOMAIN devices' : devices'[d] \in DeviceToken /\ d < nextDoc'
  BY DEF IInv, TypeOK, Without
<1>4. TypeOK'
  BY <1>1, <1>2, <1>3 DEF IInv, TypeOK
<1>5. RecordsOk' /\ UnreadStored' /\ SendersOk'
  BY DEF IInv, RecordsOk, UnreadStored, SendersOk
<1>6. SlotsOk'
  BY <1>2 DEF IInv, SlotsOk
<1>7. PushesCounted'
  <2>1. \A n \in Ids : BeforePush(n)' => BeforePush(n)
    BY <1>2 DEF BeforePush
  <2>2. \A n \in Ids, t \in Tokens : pushes[n][t] \in Nat
    BY DEF IInv, TypeOK
  <2>. QED BY <1>1, <2>1, <2>2 DEF IInv, PushesCounted
<1>8. OutcomeKnown'
  BY <1>1, <1>2 DEF IInv, OutcomeKnown
<1>9. StatusIsTold'
  BY <1>1 DEF IInv, StatusIsTold
<1>. QED BY <1>4, <1>5, <1>6, <1>7, <1>8, <1>9 DEF IInv

LEMMA ListTokensKeeps ==
    ASSUME IInv, NEW w \in Workers, ListTokens(w)
    PROVE  IInv'
<1>1. /\ worker[w].pc = "list" /\ worker[w] \in WorkerSlot /\ worker[w].id \in Ids
      /\ ~worker[w].success
  BY SlotKnows DEF ListTokens, IInv, OutcomeKnown
<1>2. ASSUME NEW pc \in {"update", "send"}, NEW listed \in SUBSET (Docs \X Tokens)
      PROVE  /\ [worker[w] EXCEPT !.pc = pc, !.listed = listed] \in WorkerSlot
             /\ [worker[w] EXCEPT !.pc = pc, !.listed = listed].pc = pc
             /\ [worker[w] EXCEPT !.pc = pc, !.listed = listed].id = worker[w].id
             /\ ~[worker[w] EXCEPT !.pc = pc, !.listed = listed].success
  BY <1>1 DEF WorkerSlot
<1>3. PICK pc \in {"update", "send"}, listed \in SUBSET (Docs \X Tokens) :
        Occupy(w, [worker[w] EXCEPT !.pc = pc, !.listed = listed])
  <2>1. \A d \in DOMAIN devices : <<d, devices[d].token>> \in Docs \X Tokens
    BY DEF IInv, TypeOK, DeviceToken
  <2>2. PICK mine \in SUBSET DOMAIN devices :
            Occupy(w, [worker[w] EXCEPT !.pc = IF mine = {} THEN "update" ELSE "send",
                                        !.listed = {<<d, devices[d].token>> : d \in mine}])
    BY DEF ListTokens
  <2>3. {<<d, devices[d].token>> : d \in mine} \in SUBSET (Docs \X Tokens)
    BY <2>1
  <2>4. (IF mine = {} THEN "update" ELSE "send") \in {"update", "send"}
    OBVIOUS
  <2>. QED BY <2>2, <2>3, <2>4
<1>4. faults = 0 => \A t \in Tokens : pushes[worker[w].id][t] = 0
  <2>1. BeforePush(worker[w].id)
    BY <1>1 DEF BeforePush
  <2>2. \A t \in Tokens : pushes[worker[w].id][t] \in Nat
    BY <1>1 DEF IInv, TypeOK
  <2>. QED BY <1>1, <2>1, <2>2 DEF IInv, PushesCounted
<1>5. faults' \in faults .. MaxFaults /\ faults' = faults
  BY ConstantsAssumption DEF ListTokens, IInv, TypeOK
<1>6. UNCHANGED <<hour, prefs, notes, devices, nextDoc, jobs, sender, api, pushes>>
  BY DEF ListTokens
<1>7. PICK slot \in WorkerSlot :
        Occupy(w, slot) /\ slot.pc = pc /\ slot.id = worker[w].id /\ ~slot.success
  BY <1>2, <1>3
<1>. QED BY <1>1, <1>4, <1>5, <1>6, <1>7, SlotStep

LEMMA FindInvalidKeeps ==
    ASSUME IInv, NEW w \in Workers, NEW token \in Tokens, FindInvalid(w, token)
    PROVE  IInv'
<1>1. /\ worker[w].pc = "find" /\ worker[w] \in WorkerSlot /\ worker[w].id \in Ids
      /\ IF worker[w].success THEN \E t \in Tokens : pushes[worker[w].id][t] > 0
         ELSE faults = 0 => \A t \in Tokens : pushes[worker[w].id][t] = 0
  BY SlotKnows DEF FindInvalid
<1>2. ASSUME NEW pc \in {"find", "prune", "update"}, NEW all \in SUBSET Docs
      PROVE  /\ [worker[w] EXCEPT !.invalid = @ \ {token}, !.found = all, !.pc = pc] \in WorkerSlot
             /\ [worker[w] EXCEPT !.invalid = @ \ {token}, !.found = all, !.pc = pc].pc = pc
             /\ [worker[w] EXCEPT !.invalid = @ \ {token}, !.found = all, !.pc = pc].id
                    = worker[w].id
             /\ [worker[w] EXCEPT !.invalid = @ \ {token}, !.found = all, !.pc = pc].success
                    = worker[w].success
  BY <1>1 DEF WorkerSlot
<1>3. PICK pc \in {"find", "prune", "update"}, all \in SUBSET Docs :
        Occupy(w, [worker[w] EXCEPT !.invalid = @ \ {token}, !.found = all, !.pc = pc])
  <2>1. findByToken(token) \subseteq Docs /\ worker[w].found \subseteq Docs
    BY <1>1 DEF IInv, TypeOK, findByToken, WorkerSlot
  <2>2. PICK found \in IF findByToken(token) = {} THEN {{}} ELSE {{d} : d \in findByToken(token)} :
            Occupy(w, [worker[w] EXCEPT !.invalid = @ \ {token},
                          !.found = worker[w].found \cup found,
                          !.pc = CASE worker[w].invalid # {token} -> "find"
                                   [] worker[w].found \cup found # {} -> "prune"
                                   [] OTHER -> "update"])
    BY DEF FindInvalid
  <2>3. worker[w].found \cup found \in SUBSET Docs
    BY <2>1, <2>2
  <2>. QED BY <2>2, <2>3
<1>4. faults' \in faults .. MaxFaults /\ faults' = faults
  BY ConstantsAssumption DEF FindInvalid, IInv, TypeOK
<1>5. UNCHANGED <<hour, prefs, notes, devices, nextDoc, jobs, sender, api, pushes>>
  BY DEF FindInvalid
<1>6. PICK slot \in WorkerSlot :
        /\ Occupy(w, slot) /\ slot.pc = pc /\ slot.id = worker[w].id
        /\ slot.success = worker[w].success
  <2>. DEFINE slot == [worker[w] EXCEPT !.invalid = @ \ {token}, !.found = all, !.pc = pc]
  <2>1. /\ slot \in WorkerSlot /\ slot.pc = pc /\ slot.id = worker[w].id
        /\ slot.success = worker[w].success
    BY <1>2
  <2>2. Occupy(w, slot)
    BY <1>3
  <2>. HIDE DEF slot
  <2>. QED BY <2>1, <2>2
<1>. QED BY <1>1, <1>4, <1>5, <1>6, SlotStep

LEMMA PruneOneKeeps ==
    ASSUME IInv, NEW w \in Workers, NEW d \in Docs, PruneOne(w, d)
    PROVE  IInv'
<1>1. /\ worker[w].pc = "prune" /\ worker[w] \in WorkerSlot /\ worker[w].id \in Ids
      /\ IF worker[w].success THEN \E t \in Tokens : pushes[worker[w].id][t] > 0
         ELSE faults = 0 => \A t \in Tokens : pushes[worker[w].id][t] = 0
  BY SlotKnows DEF PruneOne
<1>2. ASSUME NEW pc \in {"prune", "update"}
      PROVE  /\ [worker[w] EXCEPT !.found = @ \ {d}, !.pc = pc] \in WorkerSlot
             /\ [worker[w] EXCEPT !.found = @ \ {d}, !.pc = pc].pc = pc
             /\ [worker[w] EXCEPT !.found = @ \ {d}, !.pc = pc].id = worker[w].id
             /\ [worker[w] EXCEPT !.found = @ \ {d}, !.pc = pc].success = worker[w].success
  BY <1>1 DEF WorkerSlot
<1>3. PICK pc \in {"prune", "update"} : Occupy(w, [worker[w] EXCEPT !.found = @ \ {d}, !.pc = pc])
  BY DEF PruneOne
<1>4. faults' \in faults .. MaxFaults /\ faults' = faults
  BY ConstantsAssumption DEF PruneOne, IInv, TypeOK
<1>5. PICK slot \in WorkerSlot :
        /\ Occupy(w, slot) /\ slot.pc = pc /\ slot.id = worker[w].id
        /\ slot.success = worker[w].success
  BY <1>2, <1>3
<1>6. /\ UNCHANGED <<hour, prefs, notes, nextDoc, jobs, sender, api, pushes>>
      /\ devices' = Without(d)
  BY DEF PruneOne
<1>. QED BY <1>1, <1>4, <1>5, <1>6, SlotStep

LEMMA PruneFailsKeeps ==
    ASSUME IInv, NEW w \in Workers, PruneFails(w)
    PROVE  IInv'
<1>1. /\ worker[w].pc \in {"find", "prune"} /\ worker[w] \in WorkerSlot /\ worker[w].id \in Ids
      /\ worker[w].success => \E t \in Tokens : pushes[worker[w].id][t] > 0
  BY SlotKnows DEF PruneFails
<1>2. /\ [worker[w] EXCEPT !.pc = "update", !.invalid = {}, !.found = {}] \in WorkerSlot
      /\ [worker[w] EXCEPT !.pc = "update", !.invalid = {}, !.found = {}].pc = "update"
      /\ [worker[w] EXCEPT !.pc = "update", !.invalid = {}, !.found = {}].id = worker[w].id
      /\ [worker[w] EXCEPT !.pc = "update", !.invalid = {}, !.found = {}].success
            = worker[w].success
  BY <1>1 DEF WorkerSlot
<1>3. faults' \in faults .. MaxFaults /\ faults' # 0
  BY ConstantsAssumption DEF PruneFails, IInv, TypeOK
<1>. QED BY <1>1, <1>2, <1>3, SlotStep DEF PruneFails

LEMMA StartPushKeeps ==
    ASSUME IInv, NEW w \in Workers, NEW n \in Ids, StartPush(w, n)
    PROVE  IInv'
<1>1. /\ faults \in Nat /\ jobs[n] \in Job /\ jobs[n].state = "waiting"
      /\ jobs[n].attemptsMade < Attempts
      /\ notes[n].status # "none"
  BY ConstantsAssumption DEF IInv, TypeOK, RecordsOk, StartPush
<1>2. /\ jobs' \in [Ids -> Job] /\ jobs'[n].state = "active"
      /\ jobs'[n].attemptsMade = jobs[n].attemptsMade
      /\ \A m \in Ids \ {n} : jobs'[m] = jobs[m]
  BY <1>1 DEF IInv, TypeOK, Job, StartPush
<1>3. PICK slot \in WorkerSlot :
        Occupy(w, slot) /\ slot.pc = "list" /\ slot.id = n /\ ~slot.success
  <2>. DEFINE slot == [IdleSlot EXCEPT !.pc = "list", !.id = n]
  <2>1. n \in 0 .. MaxNotes
    BY ConstantsAssumption DEF Ids
  <2>2. slot \in WorkerSlot /\ slot.pc = "list" /\ slot.id = n
    BY <2>1, InitialRecords DEF WorkerSlot
  <2>3. ~slot.success
    BY DEF IdleSlot
  <2>4. Occupy(w, slot)
    BY DEF StartPush
  <2>. HIDE DEF slot
  <2>. QED BY <2>2, <2>3, <2>4
<1>4. /\ worker' \in [Workers -> WorkerSlot] /\ worker'[w] = slot
      /\ \A v \in Workers \ {w} : worker'[v] = worker[v]
  BY <1>3, OccupyFits DEF IInv
<1>5. UNCHANGED <<hour, prefs, notes, devices, nextDoc, sender, api, pushes, faults>>
  BY DEF StartPush
<1>6. TypeOK'
  BY <1>2, <1>4, <1>5 DEF IInv, TypeOK
<1>7. RecordsOk' /\ UnreadStored'
  BY <1>1, <1>2, <1>5 DEF IInv, RecordsOk, UnreadStored
<1>8. SendersOk'
  BY <1>1, <1>2, <1>5 DEF IInv, SendersOk
<1>9. SlotsOk'
  <2>1. \A v \in Workers : worker[v].pc # "idle" => worker[v].id \in Ids \ {n}
    BY <1>1 DEF IInv, SlotsOk
  <2>. QED BY <1>2, <1>3, <1>4, <2>1 DEF IInv, SlotsOk
<1>10. PushesCounted'
  <2>1. \A m \in Ids : BeforePush(m)' => BeforePush(m)
    BY <1>1, <1>2, <1>3, <1>4 DEF BeforePush
  <2>. QED BY <1>5, <2>1 DEF IInv, PushesCounted
<1>11. OutcomeKnown'
  BY <1>1, <1>2, <1>3, <1>4, <1>5 DEF IInv, OutcomeKnown
<1>12. StatusIsTold'
  BY <1>5 DEF IInv, StatusIsTold
<1>. QED BY <1>6, <1>7, <1>8, <1>9, <1>10, <1>11, <1>12 DEF IInv

\* FCM hands a push once to each device that accepts it.
LEMMA PushCounts ==
    ASSUME TypeOK, NEW w \in Workers, worker[w].id \in Ids,
           NEW accepted \in SUBSET Tokens, Push(w, accepted)
    PROVE  /\ pushes' \in [Ids -> [Tokens -> Nat]]
           /\ \A m \in Ids \ {worker[w].id} : pushes'[m] = pushes[m]
           /\ \A t \in Tokens :
                /\ pushes'[worker[w].id][t] \in {pushes[worker[w].id][t], pushes[worker[w].id][t] + 1}
                /\ t \notin accepted => pushes'[worker[w].id][t] = pushes[worker[w].id][t]
                /\ t \in accepted \cap Listed(w) => pushes'[worker[w].id][t] > 0
<1>. DEFINE gets(t) == IF t \in accepted THEN TimesSent(worker[w].listed, t) ELSE 0
<1>1. \A t \in Tokens : /\ gets(t) \in {0, 1} /\ (t \notin accepted => gets(t) = 0)
                        /\ t \in accepted \cap Listed(w) => gets(t) = 1
  BY DEF TimesSent, Listed
<1>2. PICK n \in Ids : n = worker[w].id
  OBVIOUS
<1>3. pushes[n] \in [Tokens -> Nat]
  BY DEF TypeOK
<1>4. pushes' = [pushes EXCEPT ![n] = [t \in Tokens |-> pushes[n][t] + gets(t)]]
  BY <1>2 DEF Push
<1>. HIDE DEF gets
<1>5. [t \in Tokens |-> pushes[n][t] + gets(t)] \in [Tokens -> Nat]
  BY <1>1, <1>3
<1>6. /\ pushes' \in [Ids -> [Tokens -> Nat]]
      /\ \A m \in Ids \ {n} : pushes'[m] = pushes[m]
      /\ \A t \in Tokens : pushes'[n][t] = pushes[n][t] + gets(t)
  BY <1>4, <1>5 DEF TypeOK
<1>. QED BY <1>1, <1>2, <1>3, <1>6

\* A slot pushes its notification: what it then knows has to be the truth.
LEMMA PushStep ==
    ASSUME IInv, NEW w \in Workers, NEW slot \in WorkerSlot, Occupy(w, slot),
           worker[w].pc = "send", slot.pc \in {"find", "update"}, slot.id = worker[w].id,
           NEW accepted \in SUBSET Listed(w), Push(w, accepted),
           slot.success => accepted # {},
           ~slot.success /\ faults' = 0 => accepted = {},
           faults' \in faults .. MaxFaults,
           UNCHANGED <<hour, prefs, notes, devices, nextDoc, jobs, sender, api>>
    PROVE  IInv'
<1>1. faults \in Nat /\ faults' \in 0 .. MaxFaults /\ faults' >= faults
  BY ConstantsAssumption DEF IInv, TypeOK
<1>2. /\ worker[w] \in WorkerSlot /\ worker[w].id \in Ids
      /\ jobs[worker[w].id].state = "active"
      /\ \A v \in Workers \ {w} : worker[v].pc # "idle" => worker[v].id # worker[w].id
  BY SlotKnows
<1>3. PICK n \in Ids : n = worker[w].id
  BY <1>2
<1>4. accepted \in SUBSET Tokens
  BY <1>2 DEF Listed, WorkerSlot
<1>5. /\ pushes' \in [Ids -> [Tokens -> Nat]]
      /\ \A m \in Ids \ {n} : pushes'[m] = pushes[m]
      /\ \A t \in Tokens :
            /\ pushes'[n][t] \in {pushes[n][t], pushes[n][t] + 1}
            /\ t \notin accepted => pushes'[n][t] = pushes[n][t]
            /\ t \in accepted => pushes'[n][t] > 0
  BY <1>3, <1>4, PushCounts DEF IInv
<1>6. /\ worker' \in [Workers -> WorkerSlot] /\ worker'[w] = slot
      /\ \A v \in Workers \ {w} : worker'[v] = worker[v]
  BY OccupyFits DEF IInv
<1>7. \A m \in Ids, t \in Tokens :
            /\ pushes[m][t] \in Nat /\ pushes'[m][t] \in Nat /\ pushes'[m][t] >= pushes[m][t]
  BY <1>5 DEF IInv, TypeOK
<1>8. \A t \in Tokens : pushes[n][t] <= faults
  BY <1>3 DEF IInv, PushesCounted, BeforePush
<1>9. TypeOK'
  BY <1>1, <1>5, <1>6 DEF IInv, TypeOK
<1>10. RecordsOk'
  BY <1>2, <1>3, <1>5 DEF IInv, RecordsOk
<1>11. UnreadStored' /\ SendersOk'
  BY DEF IInv, UnreadStored, SendersOk
<1>12. SlotsOk'
  BY <1>6 DEF IInv, SlotsOk
<1>13. PushesCounted'
  <2>1. \A m \in Ids \ {n} : BeforePush(m)' => BeforePush(m)
    BY <1>3, <1>6 DEF BeforePush
  <2>2. ~BeforePush(n)'
    BY <1>2, <1>3, <1>6 DEF BeforePush
  <2>3. ASSUME NEW m \in Ids \ {n}, NEW t \in Tokens
        PROVE  pushes'[m][t] <= 1 + faults' /\ (BeforePush(m)' => pushes'[m][t] <= faults')
    BY <1>1, <1>5, <1>7, <2>1 DEF IInv, PushesCounted
  <2>4. ASSUME NEW t \in Tokens PROVE pushes'[n][t] <= 1 + faults'
    BY <1>1, <1>5, <1>7, <1>8
  <2>. QED BY <2>2, <2>3, <2>4 DEF PushesCounted
<1>14. OutcomeKnown'
  <2>1. ASSUME NEW v \in Workers PROVE worker'[v].pc \in {"list", "send"} => ~worker'[v].success
    BY <1>6 DEF IInv, OutcomeKnown
  <2>2. IF slot.success THEN \E t \in Tokens : pushes'[n][t] > 0
        ELSE faults' = 0 => \A t \in Tokens : pushes'[n][t] = 0
    <3>1. ASSUME slot.success PROVE \E t \in Tokens : pushes'[n][t] > 0
      BY <1>4, <1>5, <3>1
    <3>2. ASSUME ~slot.success, faults' = 0, NEW t \in Tokens PROVE pushes'[n][t] = 0
      <4>1. faults = 0 /\ pushes[n][t] \in Nat /\ pushes[n][t] <= 0
        BY <1>1, <1>7, <1>8, <3>2
      <4>2. pushes'[n][t] = pushes[n][t]
        BY <1>5, <3>2
      <4>. QED BY <4>1, <4>2
    <3>. QED BY <3>1, <3>2
  <2>3. ASSUME NEW v \in Workers \ {w}, worker[v].pc \in {"find", "prune", "update"}
        PROVE  IF worker[v].success THEN \E t \in Tokens : pushes'[worker[v].id][t] > 0
               ELSE faults' = 0 => \A t \in Tokens : pushes'[worker[v].id][t] = 0
    <3>1. worker[v].id \in Ids \ {n}
      BY <1>2, <1>3, <2>3 DEF IInv, SlotsOk
    <3>. QED BY <1>1, <1>5, <2>3, <3>1 DEF IInv, OutcomeKnown
  <2>4. \A m \in Ids : faults' = 0 /\ notes'[m].status = "failed" => jobs'[m].state = "done"
    BY <1>1 DEF IInv, OutcomeKnown
  <2>. QED BY <1>3, <1>6, <2>1, <2>2, <2>3, <2>4 DEF OutcomeKnown
<1>15. StatusIsTold'
  <2>1. ASSUME NEW m \in Ids, notes[m].status = "sent" PROVE \E t \in Tokens : pushes'[m][t] > 0
    BY <1>7, <2>1 DEF IInv, StatusIsTold
  <2>2. ASSUME NEW m \in Ids, notes[m].status = "failed", faults' = 0
        PROVE  \A t \in Tokens : pushes'[m][t] = 0
    <3>1. faults = 0 /\ m # n
      BY <1>1, <1>2, <1>3, <2>2 DEF IInv, OutcomeKnown
    <3>. QED BY <1>5, <2>2, <3>1 DEF IInv, StatusIsTold
  <2>. QED BY <2>1, <2>2 DEF StatusIsTold
<1>. QED BY <1>9, <1>10, <1>11, <1>12, <1>13, <1>14, <1>15 DEF IInv

LEMMA SendKeeps ==
    ASSUME IInv, NEW w \in Workers, Send(w)
    PROVE  IInv'
<1>1. PICK accepted \in SUBSET Listed(w), invalid \in SUBSET Listed(w) :
        /\ Push(w, accepted)
        /\ Occupy(w, [worker[w] EXCEPT !.pc = IF invalid = {} THEN "update" ELSE "find",
                          !.listed = {}, !.invalid = invalid, !.success = accepted # {}])
  BY DEF Send
<1>2. worker[w].pc = "send" /\ worker[w] \in WorkerSlot
  BY SlotKnows DEF Send
<1>3. invalid \in SUBSET Tokens
  BY <1>2 DEF Listed, WorkerSlot
<1>4. ASSUME NEW pc \in {"find", "update"}, NEW success \in BOOLEAN
      PROVE  /\ [worker[w] EXCEPT !.pc = pc, !.listed = {}, !.invalid = invalid,
                                  !.success = success] \in WorkerSlot
             /\ [worker[w] EXCEPT !.pc = pc, !.listed = {}, !.invalid = invalid,
                                  !.success = success].pc = pc
             /\ [worker[w] EXCEPT !.pc = pc, !.listed = {}, !.invalid = invalid,
                                  !.success = success].id = worker[w].id
             /\ [worker[w] EXCEPT !.pc = pc, !.listed = {}, !.invalid = invalid,
                                  !.success = success].success = success
  BY <1>2, <1>3 DEF WorkerSlot
<1>5. PICK pc \in {"find", "update"} : pc = IF invalid = {} THEN "update" ELSE "find"
  OBVIOUS
<1>6. PICK success \in BOOLEAN : success = (accepted # {})
  OBVIOUS
<1>7. PICK slot \in WorkerSlot :
        /\ Occupy(w, slot) /\ slot.pc = pc /\ slot.id = worker[w].id
        /\ slot.success = (accepted # {})
  <2>. DEFINE slot == [worker[w] EXCEPT !.pc = pc, !.listed = {}, !.invalid = invalid,
                                        !.success = success]
  <2>1. /\ slot \in WorkerSlot /\ slot.pc = pc /\ slot.id = worker[w].id
        /\ slot.success = success
    BY <1>4
  <2>2. Occupy(w, slot)
    BY <1>1, <1>5, <1>6
  <2>. HIDE DEF slot
  <2>. QED BY <1>6, <2>1, <2>2
<1>8. faults' \in faults .. MaxFaults
  BY ConstantsAssumption DEF Send, IInv, TypeOK
<1>9. UNCHANGED <<hour, prefs, notes, devices, nextDoc, jobs, sender, api>>
  BY DEF Send
<1>. QED BY <1>1, <1>2, <1>7, <1>8, <1>9, PushStep

LEMMA SendThrowsKeeps ==
    ASSUME IInv, NEW w \in Workers, SendThrows(w)
    PROVE  IInv'
<1>1. PICK accepted \in SUBSET Listed(w) : Push(w, accepted)
  BY DEF SendThrows
<1>2. worker[w].pc = "send" /\ worker[w] \in WorkerSlot /\ ~worker[w].success
  BY SlotKnows DEF SendThrows, IInv, OutcomeKnown
<1>3. PICK slot \in WorkerSlot :
        Occupy(w, slot) /\ slot.pc = "update" /\ slot.id = worker[w].id /\ ~slot.success
  <2>. DEFINE slot == [worker[w] EXCEPT !.pc = "update", !.listed = {}]
  <2>1. slot \in WorkerSlot /\ slot.pc = "update" /\ slot.id = worker[w].id /\ ~slot.success
    BY <1>2 DEF WorkerSlot
  <2>2. Occupy(w, slot)
    BY DEF SendThrows
  <2>. HIDE DEF slot
  <2>. QED BY <2>1, <2>2
<1>4. faults' \in faults .. MaxFaults /\ faults' # 0
  BY ConstantsAssumption DEF SendThrows, IInv, TypeOK
<1>5. UNCHANGED <<hour, prefs, notes, devices, nextDoc, jobs, sender, api>>
  BY DEF SendThrows
<1>. QED BY <1>1, <1>2, <1>3, <1>4, <1>5, PushStep

LEMMA NoteOutcomeKeeps ==
    ASSUME IInv, NEW w \in Workers, NoteOutcome(w)
    PROVE  IInv'
<1>1. faults \in Nat /\ worker[w].pc = "update"
  BY ConstantsAssumption DEF IInv, TypeOK, NoteOutcome
<1>2. PICK n \in Ids : n = worker[w].id
  BY <1>1, SlotKnows
<1>3. /\ jobs[n] \in Job /\ jobs[n].state = "active" /\ notes[n].status # "none"
      /\ \A v \in Workers \ {w} : worker[v].pc # "idle" => worker[v].id # n
      /\ IF worker[w].success THEN \E t \in Tokens : pushes[n][t] > 0
         ELSE faults = 0 => \A t \in Tokens : pushes[n][t] = 0
  BY <1>1, <1>2, SlotKnows
<1>4. PICK status \in {"sent", "failed"} :
        /\ status = IF worker[w].success THEN "sent" ELSE "failed"
        /\ notes' = [notes EXCEPT ![n].status = status]
  BY <1>2 DEF NoteOutcome
<1>5. /\ notes' \in [Ids -> Notification]
      /\ notes'[n].status = status
      /\ \A m \in Ids \ {n} : notes'[m] = notes[m]
  BY <1>4 DEF IInv, TypeOK, Notification
<1>6. /\ jobs' \in [Ids -> Job] /\ jobs'[n].state = "done"
      /\ \A m \in Ids \ {n} : jobs'[m] = jobs[m]
  BY <1>2 DEF NoteOutcome, IInv, TypeOK, Job
<1>7. /\ worker' \in [Workers -> WorkerSlot] /\ worker'[w].pc = "idle"
      /\ \A v \in Workers \ {w} : worker'[v] = worker[v]
  BY InitialRecords, OccupyFits DEF NoteOutcome, IInv, IdleSlot
<1>8. UNCHANGED <<hour, prefs, devices, nextDoc, sender, api, pushes, faults>>
  BY DEF NoteOutcome
<1>9. TypeOK'
  BY <1>5, <1>6, <1>7, <1>8 DEF IInv, TypeOK
<1>10. RecordsOk'
  BY <1>4, <1>5, <1>6, <1>8 DEF IInv, RecordsOk
<1>11. UnreadStored'
  <2>1. \A c \in Clients : api[c].unread \subseteq Ids
    BY DEF IInv, TypeOK, Request
  <2>. QED BY <1>4, <1>5, <1>8, <2>1 DEF IInv, UnreadStored
<1>12. SendersOk'
  BY <1>3, <1>5, <1>6, <1>8 DEF IInv, SendersOk
<1>13. SlotsOk'
  BY <1>3, <1>6, <1>7 DEF IInv, SlotsOk
<1>14. PushesCounted'
  <2>1. \A m \in Ids : BeforePush(m)' => BeforePush(m)
    BY <1>6, <1>7 DEF BeforePush
  <2>. QED BY <1>8, <2>1 DEF IInv, PushesCounted
<1>15. OutcomeKnown'
  BY <1>5, <1>6, <1>7, <1>8 DEF IInv, OutcomeKnown
<1>16. StatusIsTold'
  BY <1>3, <1>4, <1>5, <1>8 DEF IInv, StatusIsTold
<1>. QED BY <1>9, <1>10, <1>11, <1>12, <1>13, <1>14, <1>15, <1>16 DEF IInv

\* A slot gives its job up, which a failure pays for.
LEMMA GiveUpStep ==
    ASSUME IInv, NEW w \in Workers, worker[w].pc # "idle", Occupy(w, IdleSlot),
           faults < MaxFaults, faults' = faults + 1,
           jobs' \in [Ids -> Job], jobs'[worker[w].id].state \in {"waiting", "done"},
           jobs'[worker[w].id].state = "waiting" => jobs'[worker[w].id].attemptsMade < Attempts,
           \A m \in Ids \ {worker[w].id} : jobs'[m] = jobs[m],
           UNCHANGED <<hour, prefs, notes, devices, nextDoc, sender, api, pushes>>
    PROVE  IInv'
<1>1. /\ faults \in Nat /\ faults' \in 0 .. MaxFaults /\ faults' > 0
  BY ConstantsAssumption DEF IInv, TypeOK
<1>2. PICK n \in Ids : n = worker[w].id
  BY SlotKnows
<1>3. /\ jobs[n].state = "active" /\ notes[n].status # "none"
      /\ \A v \in Workers \ {w} : worker[v].pc # "idle" => worker[v].id # n
  BY <1>2, SlotKnows
<1>4. /\ worker' \in [Workers -> WorkerSlot] /\ worker'[w].pc = "idle"
      /\ \A v \in Workers \ {w} : worker'[v] = worker[v]
  BY InitialRecords, OccupyFits DEF IInv, IdleSlot
<1>5. TypeOK'
  BY <1>1, <1>4 DEF IInv, TypeOK
<1>6. RecordsOk' /\ UnreadStored'
  BY <1>2, <1>3 DEF IInv, RecordsOk, UnreadStored
<1>7. SendersOk'
  BY <1>2, <1>3 DEF IInv, SendersOk
<1>8. SlotsOk'
  BY <1>2, <1>3, <1>4 DEF IInv, SlotsOk
<1>9. PushesCounted'
  <2>1. \A m \in Ids, t \in Tokens : pushes[m][t] \in Nat /\ pushes[m][t] <= 1 + faults
    BY DEF IInv, TypeOK, PushesCounted
  <2>. QED BY <1>1, <2>1 DEF PushesCounted
<1>10. OutcomeKnown'
  BY <1>1, <1>4 DEF IInv, OutcomeKnown
<1>11. StatusIsTold'
  BY <1>1 DEF IInv, StatusIsTold
<1>. QED BY <1>5, <1>6, <1>7, <1>8, <1>9, <1>10, <1>11 DEF IInv

LEMMA DeliverFailsKeeps ==
    ASSUME IInv, NEW w \in Workers, DeliverFails(w)
    PROVE  IInv'
<1>1. PICK n \in Ids : n = worker[w].id
  BY SlotKnows DEF DeliverFails
<1>2. /\ jobs[n] \in Job /\ jobs[n].state = "active" /\ jobs[n].attemptsMade < Attempts
      /\ Attempts \in Nat /\ jobs[n].attemptsMade \in Nat
  BY <1>1, SlotKnows, ConstantsAssumption DEF DeliverFails, IInv, RecordsOk, Job
<1>3. PICK state \in {"waiting", "done"} :
        /\ state = IF jobs[n].attemptsMade + 1 < Attempts THEN "waiting" ELSE "done"
        /\ jobs' = [jobs EXCEPT ![n].attemptsMade = @ + 1, ![n].state = state]
  BY <1>1 DEF DeliverFails, Retry
<1>4. jobs[n].attemptsMade + 1 \in 0 .. Attempts
  BY <1>2
<1>5. /\ jobs' \in [Ids -> Job]
      /\ jobs'[n].state = state /\ jobs'[n].attemptsMade = jobs[n].attemptsMade + 1
      /\ \A m \in Ids \ {n} : jobs'[m] = jobs[m]
  BY <1>2, <1>3, <1>4 DEF IInv, TypeOK, Job
<1>6. state = "waiting" => jobs'[n].attemptsMade < Attempts
  BY <1>3, <1>5
<1>7. /\ worker[w].pc # "idle" /\ Occupy(w, IdleSlot) /\ faults < MaxFaults
      /\ faults' = faults + 1
      /\ UNCHANGED <<hour, prefs, notes, devices, nextDoc, sender, api, pushes>>
  BY DEF DeliverFails
<1>. QED BY <1>1, <1>5, <1>6, <1>7, GiveUpStep

LEMMA WorkerCrashesKeeps ==
    ASSUME IInv, NEW w \in Workers, WorkerCrashes(w)
    PROVE  IInv'
<1>1. PICK n \in Ids : n = worker[w].id
  BY SlotKnows DEF WorkerCrashes
<1>2. jobs[n] \in Job /\ jobs[n].state = "active" /\ jobs[n].attemptsMade < Attempts
  BY <1>1, SlotKnows DEF WorkerCrashes, IInv, RecordsOk
<1>3. jobs' = [jobs EXCEPT ![n].state = "waiting"]
  BY <1>1 DEF WorkerCrashes
<1>4. /\ jobs' \in [Ids -> Job]
      /\ jobs'[n].state = "waiting" /\ jobs'[n].attemptsMade < Attempts
      /\ \A m \in Ids \ {n} : jobs'[m] = jobs[m]
  BY <1>2, <1>3 DEF IInv, TypeOK, Job
<1>5. /\ worker[w].pc # "idle" /\ Occupy(w, IdleSlot) /\ faults < MaxFaults
      /\ faults' = faults + 1
      /\ UNCHANGED <<hour, prefs, notes, devices, nextDoc, sender, api, pushes>>
  BY DEF WorkerCrashes
<1>. QED BY <1>1, <1>4, <1>5, GiveUpStep

-----------------------------------------------------------------------------
(* Every step.                                                              *)

LEMMA NextInvariant ==
    ASSUME IInv, [Next]_vars
    PROVE  IInv'
<1>1. CASE UNCHANGED vars
  BY <1>1 DEF vars, IInv, TypeOK, RecordsOk, UnreadStored, SendersOk, SlotsOk, PushesCounted,
              BeforePush, OutcomeKnown, StatusIsTold
<1>2. ASSUME NEW s \in Senders,
             \/ \E user \in Users, type \in Types : LoadPreferences(s, user, type)
             \/ Persist(s) \/ enqueueSendPush(s) \/ NotifyFails(s)
      PROVE  IInv'
  BY <1>2, LoadPreferencesKeeps, PersistKeeps, EnqueueKeeps, NotifyFailsKeeps
<1>3. ASSUME NEW c \in Clients, Receive(c) \/ Serve(c) \/ RequestFails(c) PROVE IInv'
  BY <1>3, ReceiveKeeps, ServeKeeps, RequestFailsKeeps
<1>4. ASSUME NEW w \in Workers, Process(w) PROVE IInv'
  BY <1>4, ListTokensKeeps, SendKeeps, FindInvalidKeeps, PruneOneKeeps, NoteOutcomeKeeps
     DEF Process
<1>5. ASSUME NEW w \in Workers,
             \/ \E n \in Ids : StartPush(w, n)
             \/ SendThrows(w) \/ PruneFails(w) \/ DeliverFails(w) \/ WorkerCrashes(w)
      PROVE  IInv'
  BY <1>5, StartPushKeeps, SendThrowsKeeps, PruneFailsKeeps, DeliverFailsKeeps,
     WorkerCrashesKeeps
<1>. QED BY <1>1, <1>2, <1>3, <1>4, <1>5, HourPassesKeeps DEF Next

THEOREM Invariant == Spec => []IInv
<1>1. Init => IInv
  BY InitInvariant
<1>2. IInv /\ [Next]_vars => IInv'
  BY NextInvariant
<1>. QED BY <1>1, <1>2, PTL DEF Spec

\* The documents, jobs and handlers of the notification service and its worker
\* keep the shape the handlers rely on.
THEOREM TypeCorrect == Spec => []TypeOK
<1>1. IInv => TypeOK
  BY DEF IInv
<1>. QED BY <1>1, Invariant, PTL

\* sendToTokens and the retries of BullMQ: a device gets a notification at most
\* once, and once more for every failure, however many slots run and however
\* registrations race.
THEOREM PushedAtMostOncePerFailure == Spec => []PushedOnceEach
<1>1. IInv => PushedOnceEach
  BY DEF IInv, PushesCounted, PushedOnceEach
<1>. QED BY <1>1, Invariant, PTL

\* The status that deliver writes is what FCM answered, for every device that
\* comes and goes while the push is under way.
THEOREM StatusTellsOutcome == Spec => []StatusIsTold
<1>1. IInv => StatusIsTold
  BY DEF IInv
<1>. QED BY <1>1, Invariant, PTL

-----------------------------------------------------------------------------
(* What was read.                                                           *)

\* Only persist, the marking and the outcome write to a record.
LEMMA NotesWritten ==
    ASSUME [Next]_vars
    PROVE  \/ UNCHANGED notes
           \/ \E s \in Senders : Persist(s)
           \/ \E c \in Clients, n \in Ids : MarkOne(c, n)
           \/ \E w \in Workers : NoteOutcome(w)
<1>1. ASSUME NEW c \in Clients, Receive(c) PROVE UNCHANGED notes
  BY <1>1 DEF Receive, BeginRegister, BeginUnregister, BeginMarkRead, BeginMarkAllRead,
              BeginEdit, Accept
<1>2. ASSUME NEW c \in Clients, Serve(c) PROVE UNCHANGED notes \/ \E n \in Ids : MarkOne(c, n)
  BY <1>2 DEF Serve, CreateDevice, UpdateDevice, RemoveDevice, WritePreferences
<1>3. ASSUME NEW w \in Workers, Process(w) PROVE UNCHANGED notes \/ NoteOutcome(w)
  BY <1>3 DEF Process, ListTokens, Send, FindInvalid, PruneOne
<1>. QED BY <1>1, <1>2, <1>3 DEF Next, vars, LoadPreferences, enqueueSendPush, NotifyFails,
            RequestFails, StartPush, SendThrows, PruneFails, DeliverFails, WorkerCrashes,
            HourPasses

\* markRead and markAllRead are not undone: neither a delivery that had the
\* record in hand nor a later record takes the mark away.
THEOREM ReadStaysRead == Spec => ReadIsKept
<1>1. IInv /\ [Next]_vars => [\A n \in Ids : notes[n].read => notes'[n].read]_vars
  <2>. SUFFICES ASSUME IInv, [Next]_vars, NEW n \in Ids, notes[n].read PROVE notes'[n].read
    OBVIOUS
  <2>1. \A m \in Ids : notes[m] \in Notification
    BY DEF IInv, TypeOK
  <2>2. ASSUME NEW s \in Senders, Persist(s) PROVE notes'[n].read
    <3>1. PICK m \in Ids :
            /\ \A k \in Ids : notes[k].status = "none" <=> m <= k
            /\ notes' = [notes EXCEPT ![m] = [user |-> sender[s].user, type |-> sender[s].type,
                                              status |-> "pending", read |-> FALSE]]
      BY <2>2 DEF Persist
    <3>2. notes[m].status = "none"
      BY <3>1 DEF Ids
    <3>3. m # n
      BY <3>2 DEF IInv, RecordsOk
    <3>. QED BY <3>1, <3>3 DEF IInv, TypeOK
  <2>3. ASSUME NEW c \in Clients, NEW m \in Ids, MarkOne(c, m) PROVE notes'[n].read
    BY <2>1, <2>3 DEF MarkOne, IInv, TypeOK, Notification
  <2>4. ASSUME NEW w \in Workers, NoteOutcome(w) PROVE notes'[n].read
    BY <2>1, <2>4 DEF NoteOutcome, IInv, TypeOK, Notification
  <2>. QED BY <2>2, <2>3, <2>4, NotesWritten
<1>. QED BY <1>1, Invariant, PTL DEF Spec, ReadIsKept

-----------------------------------------------------------------------------
(* What the preferences forbid.                                             *)

\* A call about a muted type carries preferences that mute it, and no record of
\* the type has a job or is about to get one.
NothingQueued(user, type) ==
    /\ \A s \in Senders :
        sender[s].pc = "persist" /\ sender[s].user = user /\ sender[s].type = type
            => Muted(sender[s].prefs, type)
    /\ \A s \in Senders :
        sender[s].pc = "enqueue" =>
            ~(notes[sender[s].id].user = user /\ notes[sender[s].id].type = type)
    /\ \A n \in Ids : notes[n].user = user /\ notes[n].type = type => jobs[n].state = "none"

\* Only the calls of notify, and the worker, touch a call or a job.
LEMMA CallsWritten ==
    ASSUME [Next]_vars
    PROVE  \/ UNCHANGED <<sender, jobs>>
           \/ \E s \in Senders :
                \/ \E user \in Users, type \in Types : LoadPreferences(s, user, type)
                \/ Persist(s) \/ enqueueSendPush(s) \/ NotifyFails(s)
           \/ \E w \in Workers :
                \/ \E n \in Ids : StartPush(w, n)
                \/ NoteOutcome(w) \/ DeliverFails(w) \/ WorkerCrashes(w)
<1>1. ASSUME NEW c \in Clients, Receive(c) PROVE UNCHANGED <<sender, jobs>>
  BY <1>1 DEF Receive, BeginRegister, BeginUnregister, BeginMarkRead, BeginMarkAllRead,
              BeginEdit, Accept
<1>2. ASSUME NEW c \in Clients, Serve(c) PROVE UNCHANGED <<sender, jobs>>
  BY <1>2 DEF Serve, CreateDevice, UpdateDevice, RemoveDevice, MarkOne, WritePreferences
<1>3. ASSUME NEW w \in Workers, Process(w) PROVE UNCHANGED <<sender, jobs>> \/ NoteOutcome(w)
  BY <1>3 DEF Process, ListTokens, Send, FindInvalid, PruneOne
<1>. QED BY <1>1, <1>2, <1>3 DEF Next, vars, RequestFails, SendThrows, PruneFails, HourPasses

\* A record that was stored stays with its user and its type.
LEMMA OwnerKept ==
    ASSUME IInv, [Next]_vars, ~\E s \in Senders : Persist(s), NEW n \in Ids
    PROVE  notes'[n].user = notes[n].user /\ notes'[n].type = notes[n].type
<1>1. \A m \in Ids : notes[m] \in Notification
  BY DEF IInv, TypeOK
<1>2. ASSUME NEW c \in Clients, NEW m \in Ids, MarkOne(c, m)
      PROVE  notes'[n].user = notes[n].user /\ notes'[n].type = notes[n].type
  BY <1>1, <1>2 DEF MarkOne, IInv, TypeOK, Notification
<1>3. ASSUME NEW w \in Workers, NoteOutcome(w)
      PROVE  notes'[n].user = notes[n].user /\ notes'[n].type = notes[n].type
  BY <1>1, <1>3 DEF NoteOutcome, IInv, TypeOK, Notification
<1>. QED BY <1>2, <1>3, NotesWritten

LEMMA NothingQueuedKept ==
    ASSUME IInv, [Next]_vars, NEW user \in Users, NEW type \in Types,
           Muted(prefs[user], type), faults' = 0, NothingQueued(user, type)
    PROVE  NothingQueued(user, type)'
<1>. DEFINE Calls == \A s \in Senders :
                sender[s].pc = "persist" /\ sender[s].user = user /\ sender[s].type = type
                    => Muted(sender[s].prefs, type)
            Enqueues == \A s \in Senders :
                sender[s].pc = "enqueue" =>
                    ~(notes[sender[s].id].user = user /\ notes[sender[s].id].type = type)
            Jobs == \A n \in Ids :
                notes[n].user = user /\ notes[n].type = type => jobs[n].state = "none"
<1>0. /\ sender \in [Senders -> Sender] /\ jobs \in [Ids -> Job]
      /\ notes \in [Ids -> Notification] /\ faults \in Nat
      /\ \A s \in Senders : sender[s].pc = "enqueue" => sender[s].id \in Ids
  BY ConstantsAssumption DEF IInv, TypeOK, SendersOk
<1>1. ASSUME NEW s \in Senders, NEW call, sender' = [sender EXCEPT ![s] = call],
             call.pc = "persist" /\ call.user = user /\ call.type = type => Muted(call.prefs, type)
      PROVE  Calls'
  BY <1>0, <1>1 DEF NothingQueued
<1>2. ASSUME NEW s \in Senders, NEW call, sender' = [sender EXCEPT ![s] = call],
             call.pc # "enqueue", UNCHANGED notes
      PROVE  Enqueues'
  BY <1>0, <1>2 DEF NothingQueued
<1>3. IdleSender \in Sender /\ IdleSender.pc = "idle"
  BY InitialRecords DEF IdleSender
<1>4. ASSUME NEW s \in Senders, NEW u \in Users, NEW p \in Types, LoadPreferences(s, u, p)
      PROVE  NothingQueued(user, type)'
  <2>1. faults' # faults + 1
    BY <1>0
  <2>2. sender' = [sender EXCEPT ![s] = [IdleSender EXCEPT !.pc = "persist", !.user = u,
                                                    !.type = p, !.prefs = prefs[u]]]
    BY <1>4, <2>1 DEF LoadPreferences, Call
  <2>3. PICK call : /\ sender' = [sender EXCEPT ![s] = call]
                    /\ call.pc = "persist" /\ call.user = u /\ call.type = p
                    /\ call.prefs = prefs[u]
    <3>. DEFINE call == [IdleSender EXCEPT !.pc = "persist", !.user = u, !.type = p,
                                           !.prefs = prefs[u]]
    <3>1. call.pc = "persist" /\ call.user = u /\ call.type = p /\ call.prefs = prefs[u]
      BY DEF IdleSender
    <3>2. sender' = [sender EXCEPT ![s] = call]
      BY <2>2
    <3>. HIDE DEF call
    <3>. QED BY <3>1, <3>2
  <2>4. UNCHANGED <<notes, jobs>>
    BY <1>4 DEF LoadPreferences
  <2>5. Calls' /\ Enqueues'
    BY <1>1, <1>2, <2>3, <2>4
  <2>6. Jobs'
    BY <2>4 DEF NothingQueued
  <2>. QED BY <2>5, <2>6 DEF NothingQueued
<1>5. ASSUME NEW s \in Senders, Persist(s) PROVE NothingQueued(user, type)'
  <2>1. PICK n \in Ids :
        /\ \A m \in Ids : notes[m].status = "none" <=> n <= m
        /\ notes' = [notes EXCEPT ![n] = [user |-> sender[s].user, type |-> sender[s].type,
                                          status |-> "pending", read |-> FALSE]]
        /\ Call(s, IF Suppressed(sender[s].prefs, sender[s].type) THEN IdleSender
                   ELSE [IdleSender EXCEPT !.pc = "enqueue", !.id = n])
    BY <1>5 DEF Persist
  <2>2. notes[n].status = "none" /\ jobs[n].state = "none"
    BY <2>1 DEF IInv, RecordsOk, Ids
  <2>3. /\ notes'[n].user = sender[s].user /\ notes'[n].type = sender[s].type
        /\ \A m \in Ids \ {n} : notes'[m] = notes[m]
    BY <1>0, <2>1
  <2>4. jobs' = jobs /\ sender[s].pc = "persist"
    BY <1>5 DEF Persist
  <2>5. Jobs'
    BY <2>2, <2>3, <2>4 DEF NothingQueued
  <2>6. /\ \A r \in Senders \ {s} : sender'[r] = sender[r]
        /\ sender'[s].pc # "persist"
        /\ sender'[s].pc = "enqueue" =>
                sender'[s].id = n /\ ~Suppressed(sender[s].prefs, sender[s].type)
    BY <1>0, <1>3, <2>1 DEF Call, Sender
  <2>7. Calls'
    BY <2>6 DEF NothingQueued
  <2>8. \A r \in Senders \ {s} :
            sender[r].pc = "enqueue" => sender[r].id \in Ids \ {n}
    BY <2>2 DEF IInv, SendersOk
  <2>9. Enqueues'
    BY <2>3, <2>4, <2>6, <2>8 DEF NothingQueued, Suppressed
  <2>. QED BY <2>5, <2>7, <2>9 DEF NothingQueued
<1>6. ASSUME NEW s \in Senders, enqueueSendPush(s) PROVE NothingQueued(user, type)'
  <2>1. sender' = [sender EXCEPT ![s] = IdleSender] /\ UNCHANGED notes
    BY <1>6 DEF enqueueSendPush, Call
  <2>2. Calls' /\ Enqueues'
    BY <1>1, <1>2, <1>3, <2>1
  <2>3. \A n \in Ids : jobs'[n] = jobs[n] \/ n = sender[s].id
    BY <1>0, <1>6 DEF enqueueSendPush
  <2>4. Jobs'
    BY <1>6, <2>1, <2>3 DEF NothingQueued, enqueueSendPush
  <2>. QED BY <2>2, <2>4 DEF NothingQueued
<1>7. ASSUME NEW s \in Senders, NotifyFails(s) PROVE NothingQueued(user, type)'
  <2>1. sender' = [sender EXCEPT ![s] = IdleSender] /\ UNCHANGED <<notes, jobs>>
    BY <1>7 DEF NotifyFails, Call
  <2>2. Calls' /\ Enqueues'
    BY <1>1, <1>2, <1>3, <2>1
  <2>3. Jobs'
    BY <2>1 DEF NothingQueued
  <2>. QED BY <2>2, <2>3 DEF NothingQueued
<1>8. ASSUME UNCHANGED sender, ~\E s \in Senders : Persist(s),
             \A n \in Ids : jobs[n].state = "none" => jobs'[n].state = "none"
      PROVE  NothingQueued(user, type)'
  <2>1. \A n \in Ids : notes'[n].user = notes[n].user /\ notes'[n].type = notes[n].type
    BY <1>8, OwnerKept
  <2>2. Calls'
    BY <1>8 DEF NothingQueued
  <2>3. Enqueues'
    BY <1>0, <1>8, <2>1 DEF NothingQueued
  <2>4. Jobs'
    BY <1>8, <2>1 DEF NothingQueued
  <2>. QED BY <2>2, <2>3, <2>4 DEF NothingQueued
<1>9. ASSUME NEW w \in Workers,
             \/ \E n \in Ids : StartPush(w, n)
             \/ NoteOutcome(w) \/ DeliverFails(w) \/ WorkerCrashes(w)
      PROVE  UNCHANGED sender /\ \A n \in Ids : jobs[n].state = "none" => jobs'[n].state = "none"
  <2>1. ASSUME NEW m \in Ids, StartPush(w, m)
        PROVE  UNCHANGED sender /\ \A n \in Ids : jobs[n].state = "none" => jobs'[n].state = "none"
    BY <1>0, <2>1 DEF StartPush
  <2>2. ASSUME NoteOutcome(w) \/ DeliverFails(w) \/ WorkerCrashes(w)
        PROVE  UNCHANGED sender /\ \A n \in Ids : jobs[n].state = "none" => jobs'[n].state = "none"
    <3>1. worker[w].pc # "idle"
      BY <2>2 DEF NoteOutcome, DeliverFails, WorkerCrashes
    <3>2. worker[w].id \in Ids /\ jobs[worker[w].id].state = "active"
      BY <3>1, SlotKnows
    <3>3. \A n \in Ids : n # worker[w].id => jobs'[n] = jobs[n]
      BY <1>0, <2>2 DEF NoteOutcome, DeliverFails, Retry, WorkerCrashes
    <3>. QED BY <2>2, <3>2, <3>3 DEF NoteOutcome, DeliverFails, WorkerCrashes
  <2>. QED BY <1>9, <2>1, <2>2
<1>. QED BY <1>4, <1>5, <1>6, <1>7, <1>8, <1>9, CallsWritten

\* notify and updateNotificationPreferences: as long as a user keeps push, or a
\* category, switched off and no read of the preferences fails, no push of it
\* goes out, whatever edits and deliveries run beside.
THEOREM MutedUserIsLeftAlone == Spec => MutedIsNotPushed
<1>. SUFFICES ASSUME NEW user \in Users, NEW type \in Types
              PROVE  Spec => ([](Muted(prefs[user], type) /\ faults = 0)
                        => [](\A n \in Ids, t \in Tokens :
                                notes[n].user = user /\ notes[n].type = type
                                    => pushes[n][t] = 0))
  BY DEF MutedIsNotPushed
<1>1. Init => NothingQueued(user, type)
  BY DEF Init, NothingQueued, IdleSender
<1>2. /\ IInv /\ Muted(prefs[user], type) /\ faults = 0
      /\ (Muted(prefs[user], type) /\ faults = 0)'
      /\ NothingQueued(user, type) /\ [Next]_vars
      => NothingQueued(user, type)'
  BY NothingQueuedKept
<1>3. IInv /\ NothingQueued(user, type) =>
        \A n \in Ids, t \in Tokens :
            notes[n].user = user /\ notes[n].type = type => pushes[n][t] = 0
  BY DEF IInv, RecordsOk, NothingQueued
<1>. QED BY <1>1, <1>2, <1>3, Invariant, PTL DEF Spec

=============================================================================
