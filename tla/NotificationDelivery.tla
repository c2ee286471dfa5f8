------------------------ MODULE NotificationDelivery ------------------------
(***************************************************************************)
(* Notifications: notify, which stores a record and enqueues a push; the   *)
(* SEND_PUSH jobs, which send it to the devices of the user and note how   *)
(* that went; and the API requests that register and remove devices, mark  *)
(* notifications as read and edit the user's preferences.                  *)
(*                                                                         *)
(* As in RevisionEngine an action is the code between two awaits that      *)
(* reach Firestore, Redis or FCM, and a definition marked "slip" is a      *)
(* plausible wrong version of the one that follows it.                     *)
(***************************************************************************)
EXTENDS Integers, FiniteSets

CONSTANTS
    Users,
    Tokens,          \* FCM device tokens
    Types,           \* notification types
    URGENT_TYPES,    \* the types that ignore quiet hours
    Hours,           \* the hours of day the server clock shows
    Edits,           \* the preference updates a request may carry
    InitialPreferences, \* what the users may start with
    Senders,         \* concurrent calls of notify
    Clients,         \* concurrent API requests
    Workers,         \* concurrent job slots of the notification worker
    Attempts,        \* attempts of defaultJobOptions
    Ops,             \* the operations the clients of this instance use
    RedisConfigured, \* isRedisConfigured() in the process that calls notify
    MaxNotes,        \* bound: records ever stored
    MaxDocs,         \* bound: device documents ever created
    MaxFaults        \* bound: failures and crashes

Ids == 1 .. MaxNotes
Docs == 1 .. MaxDocs
OpNames == {"register", "unregister", "markRead", "markAllRead", "preferences"}

QuietHours == [enabled : BOOLEAN, startHour : 0 .. 23, endHour : 0 .. 23]

NotificationPreferences ==
    [pushEnabled : BOOLEAN, quietHours : QuietHours, categories : [Types -> BOOLEAN]]

\* A request to edit carries some of the fields, each as a set of at most one value.
PreferenceEdits ==
    [pushEnabled : SUBSET BOOLEAN, quietHours : SUBSET QuietHours,
     categories : [Types -> SUBSET BOOLEAN]]

ASSUME ConstantsAssumption ==
    /\ Users # {} /\ Tokens # {} /\ Types # {} /\ URGENT_TYPES \subseteq Types
    /\ Hours \subseteq 0 .. 23 /\ Hours # {}
    /\ InitialPreferences \subseteq [Users -> NotificationPreferences]
    /\ InitialPreferences # {}
    /\ \A edit \in Edits :
        /\ edit.pushEnabled \subseteq BOOLEAN /\ edit.quietHours \subseteq QuietHours
        /\ \A type \in Types : edit.categories[type] \subseteq BOOLEAN
    /\ Attempts \in Nat \ {0}
    /\ Ops \subseteq OpNames /\ RedisConfigured \in BOOLEAN
    /\ MaxNotes \in Nat /\ MaxDocs \in Nat /\ MaxFaults \in Nat

VARIABLES
    hour,      \* the server's local hour
    prefs,     \* notificationPreferences of every user
    notes,     \* the notifications collection, in the order of creation
    devices,   \* the device-token collection: the documents that are there
    nextDoc,   \* the next device document
    jobs,      \* the SEND_PUSH job of every record
    sender,    \* one call of notify per sender
    api,       \* one API request per client
    worker,    \* one job per worker slot
    pushes,    \* how often each device got each notification
    faults     \* failures so far

vars == <<hour, prefs, notes, devices, nextDoc, jobs, sender, api, worker, pushes, faults>>

-----------------------------------------------------------------------------
(* Records.                                                                 *)

\* A category nobody has set counts as enabled (categoryEnabled).
DEFAULT_PREFERENCES ==
    [pushEnabled |-> TRUE,
     quietHours |-> [enabled |-> FALSE, startHour |-> 22, endHour |-> 7],
     categories |-> [type \in Types |-> TRUE]]

Notification ==
    [user : Users, type : Types, status : {"none", "pending", "sent", "failed", "read"},
     read : BOOLEAN]

NoNotification ==
    [user |-> CHOOSE u \in Users : TRUE, type |-> CHOOSE type \in Types : TRUE,
     status |-> "none", read |-> FALSE]

DeviceToken == [userId : Users, token : Tokens]

Job == [state : {"none", "waiting", "active", "done"}, attemptsMade : 0 .. Attempts]

Sender ==
    [pc : {"idle", "persist", "enqueue"}, user : Users, type : Types, id : 0 .. MaxNotes,
     prefs : NotificationPreferences]

IdleSender ==
    [pc |-> "idle", user |-> CHOOSE u \in Users : TRUE, type |-> CHOOSE type \in Types : TRUE,
     id |-> 0, prefs |-> DEFAULT_PREFERENCES]

Request ==
    [pc : {"idle", "update", "create", "remove", "mark", "preferences"},
     user : Users, token : Tokens, doc : 0 .. MaxDocs, unread : SUBSET Ids,
     prefs : NotificationPreferences]

IdleRequest ==
    [pc |-> "idle", user |-> CHOOSE u \in Users : TRUE, token |-> CHOOSE t \in Tokens : TRUE,
     doc |-> 0, unread |-> {}, prefs |-> DEFAULT_PREFERENCES]

WorkerSlot ==
    [pc : {"idle", "list", "send", "find", "prune", "update"}, id : 0 .. MaxNotes,
     listed : SUBSET (Docs \X Tokens), invalid : SUBSET Tokens, found : SUBSET Docs,
     success : BOOLEAN]

IdleSlot ==
    [pc |-> "idle", id |-> 0, listed |-> {}, invalid |-> {}, found |-> {}, success |-> FALSE]

-----------------------------------------------------------------------------
(* The pure parts.                                                          *)

isWithinQuietHours(quiet, h) ==
    /\ quiet.enabled
    /\ IF quiet.startHour <= quiet.endHour
       THEN quiet.startHour <= h /\ h < quiet.endHour
       ELSE h >= quiet.startHour \/ h < quiet.endHour

Muted(p, type) == ~p.pushEnabled \/ ~p.categories[type]

\* Slip: an urgent notification is let through whatever the preferences say.
SuppressedUnlessUrgent(p, type) ==
    type \notin URGENT_TYPES /\ (Muted(p, type) \/ isWithinQuietHours(p.quietHours, hour))

Suppressed(p, type) ==
    \/ Muted(p, type)
    \/ type \notin URGENT_TYPES /\ isWithinQuietHours(p.quietHours, hour)

Carried(field, current) == IF field = {} THEN current ELSE CHOOSE value \in field : TRUE

\* updateNotificationPreferences: what the request carries, over what was read.
Merge(current, edit) ==
    [pushEnabled |-> Carried(edit.pushEnabled, current.pushEnabled),
     quietHours |-> Carried(edit.quietHours, current.quietHours),
     categories |-> [type \in Types |->
                        Carried(edit.categories[type], current.categories[type])]]

\* The documents that a query for a token, with a limit of one, may return.
findByToken(token) == {d \in DOMAIN devices : devices[d].token = token}

Unread(user) == {n \in Ids : /\ notes[n].status # "none" /\ ~notes[n].read
                             /\ notes[n].user = user}

\* Slip: the tokens are taken as they are listed, a doubled one twice.
TimesSentAsListed(listed, token) == Cardinality({entry \in listed : entry[2] = token})

\* sendToTokens sends to a token once, however often it is listed.
TimesSent(listed, token) == IF \E entry \in listed : entry[2] = token THEN 1 ELSE 0

-----------------------------------------------------------------------------
(* notify.                                                                  *)

Call(s, call) == sender' = [sender EXCEPT ![s] = call]

\* loadPreferences; when it fails, notify goes on with the defaults.
LoadPreferences(s, user, type) ==
    /\ sender[s].pc = "idle"
    /\ \/ /\ Call(s, [IdleSender EXCEPT !.pc = "persist", !.user = user, !.type = type,
                                        !.prefs = prefs[user]])
          /\ UNCHANGED faults
       \/ /\ faults < MaxFaults /\ faults' = faults + 1
          /\ Call(s, [IdleSender EXCEPT !.pc = "persist", !.user = user, !.type = type])
    /\ UNCHANGED <<hour, prefs, notes, devices, nextDoc, jobs, api, worker, pushes>>

\* persist, and the decision about the push that follows it at once.
Persist(s) ==
    /\ sender[s].pc = "persist"
    /\ \E n \in Ids :
        /\ \A m \in Ids : notes[m].status = "none" <=> n <= m
        /\ notes' = [notes EXCEPT ![n] = [user |-> sender[s].user, type |-> sender[s].type,
                                          status |-> "pending", read |-> FALSE]]
        /\ Call(s, IF Suppressed(sender[s].prefs, sender[s].type) THEN IdleSender
                   ELSE [IdleSender EXCEPT !.pc = "enqueue", !.id = n])
    /\ UNCHANGED <<hour, prefs, devices, nextDoc, jobs, api, worker, pushes, faults>>

enqueueSendPush(s) ==
    /\ sender[s].pc = "enqueue"
    /\ jobs' = IF RedisConfigured THEN [jobs EXCEPT ![sender[s].id].state = "waiting"] ELSE jobs
    /\ Call(s, IdleSender)
    /\ UNCHANGED <<hour, prefs, notes, devices, nextDoc, api, worker, pushes, faults>>

\* The create or the enqueue rejects, or the process dies.  A create always
\* ends so once the records have run out.
NotifyFails(s) ==
    /\ sender[s].pc # "idle"
    /\ \/ faults < MaxFaults /\ faults' = faults + 1
       \/ /\ sender[s].pc = "persist" /\ UNCHANGED faults
          /\ \A n \in Ids : notes[n].status # "none"
    /\ Call(s, IdleSender)
    /\ UNCHANGED <<hour, prefs, notes, devices, nextDoc, jobs, api, worker, pushes>>

-----------------------------------------------------------------------------
(* The API requests.  A request that finds nothing to do is answered and    *)
(* changes nothing.                                                         *)

Goto(c, request) == api' = [api EXCEPT ![c] = request]

Done(c) == Goto(c, IdleRequest)

\* An idle client sends a request; its handler has read what it needs.
Accept(c, op, request) ==
    /\ api[c].pc = "idle" /\ op \in Ops
    /\ Goto(c, request)
    /\ UNCHANGED <<hour, prefs, notes, devices, nextDoc, jobs, sender, worker, pushes, faults>>

\* register up to the answer of findByToken.
BeginRegister(c, user, token) ==
    \/ /\ findByToken(token) = {}
       /\ Accept(c, "register",
             [IdleRequest EXCEPT !.pc = "create", !.user = user, !.token = token])
    \/ \E d \in findByToken(token) :
        Accept(c, "register",
            [IdleRequest EXCEPT !.pc = "update", !.user = user, !.doc = d])

CreateDevice(c) ==
    /\ api[c].pc = "create" /\ nextDoc <= MaxDocs
    /\ devices' = [d \in DOMAIN devices \cup {nextDoc} |->
                    IF d = nextDoc THEN [userId |-> api[c].user, token |-> api[c].token]
                    ELSE devices[d]]
    /\ nextDoc' = nextDoc + 1
    /\ Done(c)
    /\ UNCHANGED <<hour, prefs, notes, jobs, sender, worker, pushes, faults>>

\* Slip: the write makes a document of the patch when there is none.
UpdateDeviceMerged(c) ==
    /\ api[c].pc = "update"
    /\ devices' = [d \in DOMAIN devices \cup {api[c].doc} |->
                    IF d \notin DOMAIN devices THEN [userId |-> api[c].user]
                    ELSE IF d = api[c].doc THEN [devices[d] EXCEPT !.userId = api[c].user]
                    ELSE devices[d]]
    /\ Done(c)
    /\ UNCHANGED <<hour, prefs, notes, nextDoc, jobs, sender, worker, pushes, faults>>

\* register answers with what it had found when the document is gone by now.
UpdateDevice(c) ==
    /\ api[c].pc = "update"
    /\ devices' = IF api[c].doc \in DOMAIN devices
                  THEN [devices EXCEPT ![api[c].doc].userId = api[c].user]
                  ELSE devices
    /\ Done(c)
    /\ UNCHANGED <<hour, prefs, notes, nextDoc, jobs, sender, worker, pushes, faults>>

\* removeToken: the owner is checked on what the query returned.
BeginUnregister(c, user, token) ==
    \E d \in findByToken(token) :
        /\ devices[d].userId = user
        /\ Accept(c, "unregister", [IdleRequest EXCEPT !.pc = "remove", !.doc = d])

Without(d) == [e \in DOMAIN devices \ {d} |-> devices[e]]

RemoveDevice(c) ==
    /\ api[c].pc = "remove"
    /\ devices' = Without(api[c].doc)
    /\ Done(c)
    /\ UNCHANGED <<hour, prefs, notes, nextDoc, jobs, sender, worker, pushes, faults>>

BeginMarkRead(c, user, n) ==
    /\ n \in Unread(user)
    /\ Accept(c, "markRead", [IdleRequest EXCEPT !.pc = "mark", !.unread = {n}])

BeginMarkAllRead(c, user) ==
    /\ Unread(user) # {}
    /\ Accept(c, "markAllRead", [IdleRequest EXCEPT !.pc = "mark", !.unread = Unread(user)])

\* One of the parallel updates.
MarkOne(c, n) ==
    /\ api[c].pc = "mark" /\ n \in api[c].unread
    /\ notes' = [notes EXCEPT ![n].read = TRUE, ![n].status = "read"]
    /\ IF api[c].unread = {n} THEN Done(c)
       ELSE Goto(c, [api[c] EXCEPT !.unread = @ \ {n}])
    /\ UNCHANGED <<hour, prefs, devices, nextDoc, jobs, sender, worker, pushes, faults>>

BeginEdit(c, user, edit) ==
    Accept(c, "preferences",
        [IdleRequest EXCEPT !.pc = "preferences", !.user = user,
                            !.prefs = Merge(prefs[user], edit)])

WritePreferences(c) ==
    /\ api[c].pc = "preferences"
    /\ prefs' = [prefs EXCEPT ![api[c].user] = api[c].prefs]
    /\ Done(c)
    /\ UNCHANGED <<hour, notes, devices, nextDoc, jobs, sender, worker, pushes, faults>>

\* An await of the handler rejects, or the process dies.  A create always ends
\* so once the documents have run out.
RequestFails(c) ==
    /\ api[c].pc # "idle"
    /\ \/ faults < MaxFaults /\ faults' = faults + 1
       \/ api[c].pc = "create" /\ nextDoc > MaxDocs /\ UNCHANGED faults
    /\ Done(c)
    /\ UNCHANGED <<hour, prefs, notes, devices, nextDoc, jobs, sender, worker, pushes>>

-----------------------------------------------------------------------------
(* The notification worker: notificationProcessor and deliver.              *)

Occupy(w, slot) == worker' = [worker EXCEPT ![w] = slot]

StartPush(w, n) ==
    /\ worker[w].pc = "idle" /\ jobs[n].state = "waiting"
    /\ jobs' = [jobs EXCEPT ![n].state = "active"]
    /\ Occupy(w, [IdleSlot EXCEPT !.pc = "list", !.id = n])
    /\ UNCHANGED <<hour, prefs, notes, devices, nextDoc, sender, api, pushes, faults>>

\* deliver's findById, of a record that is never deleted and whose user never
\* changes, and listTokensForUser.
ListTokens(w) ==
    /\ worker[w].pc = "list"
    /\ LET mine == {d \in DOMAIN devices : devices[d].userId = notes[worker[w].id].user} IN
       Occupy(w, [worker[w] EXCEPT !.pc = IF mine = {} THEN "update" ELSE "send",
                                   !.listed = {<<d, devices[d].token>> : d \in mine}])
    /\ UNCHANGED <<hour, prefs, notes, devices, nextDoc, jobs, sender, api, pushes, faults>>

\* FCM hands the push to the devices that accept it.
Push(w, accepted) ==
    LET n == worker[w].id IN
    pushes' = [pushes EXCEPT ![n] = [t \in Tokens |->
        @[t] + IF t \in accepted THEN TimesSent(worker[w].listed, t) ELSE 0]]

Listed(w) == {entry[2] : entry \in worker[w].listed}

\* Slip: an answer from FCM counts as a success.
SendAnswered(w) ==
    /\ worker[w].pc = "send"
    /\ \E accepted \in SUBSET Listed(w) : \E invalid \in SUBSET (Listed(w) \ accepted) :
        /\ Push(w, accepted)
        /\ Occupy(w, [worker[w] EXCEPT !.pc = IF invalid = {} THEN "update" ELSE "find",
                          !.listed = {}, !.invalid = invalid, !.success = TRUE])
    /\ UNCHANGED <<hour, prefs, notes, devices, nextDoc, jobs, sender, api, faults>>

\* sendEachForMulticast answers for every token: accepted, invalid for good,
\* or refused for now.
Send(w) ==
    /\ worker[w].pc = "send"
    /\ \E accepted \in SUBSET Listed(w) : \E invalid \in SUBSET (Listed(w) \ accepted) :
        /\ Push(w, accepted)
        /\ Occupy(w, [worker[w] EXCEPT !.pc = IF invalid = {} THEN "update" ELSE "find",
                          !.listed = {}, !.invalid = invalid, !.success = accepted # {}])
    /\ UNCHANGED <<hour, prefs, notes, devices, nextDoc, jobs, sender, api, faults>>

\* sendEachForMulticast throws, perhaps after some devices got the push: the
\* catch of sendToTokens counts every token as failed.
SendThrows(w) ==
    /\ worker[w].pc = "send" /\ faults < MaxFaults
    /\ faults' = faults + 1
    /\ \E accepted \in SUBSET Listed(w) : Push(w, accepted)
    /\ Occupy(w, [worker[w] EXCEPT !.pc = "update", !.listed = {}])
    /\ UNCHANGED <<hour, prefs, notes, devices, nextDoc, jobs, sender, api>>

\* One of pruneTokens's parallel queries, and one of its parallel deletes.
FindInvalid(w, token) ==
    /\ worker[w].pc = "find" /\ token \in worker[w].invalid
    /\ \E found \in IF findByToken(token) = {} THEN {{}} ELSE {{d} : d \in findByToken(token)} :
        LET all == worker[w].found \cup found IN
        Occupy(w, [worker[w] EXCEPT !.invalid = @ \ {token}, !.found = all,
                      !.pc = CASE worker[w].invalid # {token} -> "find"
                               [] all # {} -> "prune"
                               [] OTHER -> "update"])
    /\ UNCHANGED <<hour, prefs, notes, devices, nextDoc, jobs, sender, api, pushes, faults>>

PruneOne(w, d) ==
    /\ worker[w].pc = "prune" /\ d \in worker[w].found
    /\ devices' = Without(d)
    /\ Occupy(w, [worker[w] EXCEPT !.found = @ \ {d},
                      !.pc = IF worker[w].found = {d} THEN "update" ELSE "prune"])
    /\ UNCHANGED <<hour, prefs, notes, nextDoc, jobs, sender, api, pushes, faults>>

\* sendToTokens logs a failure of pruneTokens and goes on.
PruneFails(w) ==
    /\ worker[w].pc \in {"find", "prune"} /\ faults < MaxFaults
    /\ faults' = faults + 1
    /\ Occupy(w, [worker[w] EXCEPT !.pc = "update", !.invalid = {}, !.found = {}])
    /\ UNCHANGED <<hour, prefs, notes, devices, nextDoc, jobs, sender, api, pushes>>

\* Slip: deliver writes back the whole record it had read before the push.
NoteOutcomeOver(w) ==
    /\ worker[w].pc = "update"
    /\ notes' = [notes EXCEPT ![worker[w].id].read = FALSE, ![worker[w].id].status =
                    IF worker[w].success THEN "sent" ELSE "failed"]
    /\ jobs' = [jobs EXCEPT ![worker[w].id].state = "done"]
    /\ Occupy(w, IdleSlot)
    /\ UNCHANGED <<hour, prefs, devices, nextDoc, sender, api, pushes, faults>>

\* The status that deliver writes, over whatever is there; the job is complete.
NoteOutcome(w) ==
    /\ worker[w].pc = "update"
    /\ notes' = [notes EXCEPT ![worker[w].id].status =
                    IF worker[w].success THEN "sent" ELSE "failed"]
    /\ jobs' = [jobs EXCEPT ![worker[w].id].state = "done"]
    /\ Occupy(w, IdleSlot)
    /\ UNCHANGED <<hour, prefs, devices, nextDoc, sender, api, pushes, faults>>

\* Slip: a job that failed is not run again.
RetryNever(w) ==
    LET n == worker[w].id IN
    jobs' = [jobs EXCEPT ![n].attemptsMade = @ + 1, ![n].state = "done"]

\* BullMQ runs a job that threw again until its attempts are used up.
Retry(w) ==
    LET n == worker[w].id IN
    jobs' = [jobs EXCEPT ![n].attemptsMade = @ + 1,
                         ![n].state = IF jobs[n].attemptsMade + 1 < Attempts
                                      THEN "waiting" ELSE "done"]

\* A read or a write of deliver rejects.
DeliverFails(w) ==
    /\ worker[w].pc \in {"list", "update"} /\ faults < MaxFaults
    /\ faults' = faults + 1
    /\ Retry(w)
    /\ Occupy(w, IdleSlot)
    /\ UNCHANGED <<hour, prefs, notes, devices, nextDoc, sender, api, pushes>>

\* The worker process dies and comes back: a stalled job is run again.
WorkerCrashes(w) ==
    /\ worker[w].pc # "idle" /\ faults < MaxFaults
    /\ faults' = faults + 1
    /\ jobs' = [jobs EXCEPT ![worker[w].id].state = "waiting"]
    /\ Occupy(w, IdleSlot)
    /\ UNCHANGED <<hour, prefs, notes, devices, nextDoc, sender, api, pushes>>

HourPasses ==
    /\ hour' \in Hours \ {hour}
    /\ UNCHANGED <<prefs, notes, devices, nextDoc, jobs, sender, api, worker, pushes, faults>>

-----------------------------------------------------------------------------
Init ==
    /\ hour \in Hours
    /\ prefs \in InitialPreferences
    /\ notes = [n \in Ids |-> NoNotification]
    /\ devices = [d \in {} |-> {}]
    /\ nextDoc = 1
    /\ jobs = [n \in Ids |-> [state |-> "none", attemptsMade |-> 0]]
    /\ sender = [s \in Senders |-> IdleSender]
    /\ api = [c \in Clients |-> IdleRequest]
    /\ worker = [w \in Workers |-> IdleSlot]
    /\ pushes = [n \in Ids |-> [t \in Tokens |-> 0]]
    /\ faults = 0

Receive(c) ==
    \E user \in Users :
        \/ \E token \in Tokens : BeginRegister(c, user, token) \/ BeginUnregister(c, user, token)
        \/ \E n \in Ids : BeginMarkRead(c, user, n)
        \/ BeginMarkAllRead(c, user)
        \/ \E edit \in Edits : BeginEdit(c, user, edit)

\* The write of a request that was accepted.
Serve(c) ==
    \/ CreateDevice(c)
    \/ UpdateDevice(c)
    \/ RemoveDevice(c)
    \/ \E n \in Ids : MarkOne(c, n)
    \/ WritePreferences(c)

\* The steps of a job once a slot has taken it.
Process(w) ==
    \/ ListTokens(w)
    \/ Send(w)
    \/ \E token \in Tokens : FindInvalid(w, token)
    \/ \E d \in Docs : PruneOne(w, d)
    \/ NoteOutcome(w)

Next ==
    \/ \E s \in Senders :
        \/ \E user \in Users, type \in Types : LoadPreferences(s, user, type)
        \/ Persist(s)
        \/ enqueueSendPush(s)
        \/ NotifyFails(s)
    \/ \E c \in Clients : Receive(c) \/ Serve(c) \/ RequestFails(c)
    \/ \E w \in Workers :
        \/ \E n \in Ids : StartPush(w, n)
        \/ Process(w)
        \/ SendThrows(w)
        \/ PruneFails(w)
        \/ DeliverFails(w)
        \/ WorkerCrashes(w)
    \/ HourPasses

Spec == Init /\ [][Next]_vars

\* A job that was taken is run, and the queue, first come first served, gives
\* every job its turn.
Fairness ==
    \A w \in Workers : WF_vars(Process(w)) /\ \A n \in Ids : SF_vars(StartPush(w, n))

FairSpec == Spec /\ Fairness

-----------------------------------------------------------------------------
(* Properties.                                                              *)

\* The documents, jobs and handlers of notification.types.ts and job.types.ts
\* have the shape the handlers rely on.
TypeOK ==
    /\ hour \in Hours
    /\ prefs \in [Users -> NotificationPreferences]
    /\ notes \in [Ids -> Notification]
    /\ DOMAIN devices \in SUBSET Docs
    /\ \A d \in DOMAIN devices : devices[d] \in DeviceToken /\ d < nextDoc
    /\ nextDoc \in 1 .. MaxDocs + 1
    /\ jobs \in [Ids -> Job]
    /\ sender \in [Senders -> Sender]
    /\ api \in [Clients -> Request]
    /\ worker \in [Workers -> WorkerSlot]
    /\ pushes \in [Ids -> [Tokens -> Nat]]
    /\ faults \in 0 .. MaxFaults

\* A device gets a notification once, and once more for every failure that
\* made the job run again, even when racing registrations have stored its
\* token twice.
PushedOnceEach ==
    \A n \in Ids, t \in Tokens : pushes[n][t] <= 1 + faults

\* The status of a record tells what FCM answered: sent when a device took the
\* push, failed when none did, unless a failure came between the push and the
\* status.
StatusIsTold ==
    \A n \in Ids :
        /\ notes[n].status = "sent" => \E t \in Tokens : pushes[n][t] > 0
        /\ notes[n].status = "failed" /\ faults = 0 => \A t \in Tokens : pushes[n][t] = 0

\* A notification that was read stays read, though the delivery of its push,
\* which had the record in hand, writes to it later.
ReadIsKept ==
    [][\A n \in Ids : notes[n].read => notes'[n].read]_vars

\* A user who keeps push, or a category, switched off gets no push of it,
\* urgent or not, whatever else is edited meanwhile; a failed read of the
\* preferences is the one thing that lets a push through.
MutedIsNotPushed ==
    \A user \in Users, type \in Types :
        [](Muted(prefs[user], type) /\ faults = 0)
            => [](\A n \in Ids, t \in Tokens :
                    notes[n].user = user /\ notes[n].type = type => pushes[n][t] = 0)

\* A push that was enqueued is settled, through failures and crashes that are
\* fewer than the job's attempts: its record does not stay pending.
PushSettles ==
    \A n \in Ids : jobs[n].state = "waiting" ~> notes[n].status # "pending"

=============================================================================
