------------------------------ MODULE Sessions ------------------------------
(***************************************************************************)
(* Sessions: user documents, refresh-token records and their purge.        *)
(*                                                                         *)
(* A login reads the user, creates or updates the document and stores a    *)
(* record for the token it signs; a refresh finds the record, deletes it   *)
(* and stores another; a logout and the purge find records and delete      *)
(* them.  Every step is an await of its own, for every client.  A token is *)
(* its user and the second it was signed in: two tokens that are signed    *)
(* for one user in one second are the same token and have the same hash.   *)
(* Definitions marked "slip" are wrong versions of the one that follows.   *)
(***************************************************************************)
EXTENDS Integers, FiniteSets

CONSTANTS
    Clients,     \* devices, each with at most one request under way
    Users,
    Ttl,         \* REFRESH_TOKEN_TTL_DAYS, in seconds: how long a record is valid
    JwtTtl,      \* JWT_REFRESH_EXPIRES_IN, in seconds: how long a token is valid
    MaxTime,     \* bound: the last second of the clock
    MaxRecords,  \* bound: records ever stored
    MaxFaults    \* bound: requests that fail halfway

\* "Must align": a token that outlives its record could not be refreshed to the end.
ASSUME ConstantsAssumption ==
    Ttl \in Nat /\ JwtTtl \in 0 .. Ttl /\ MaxTime \in Nat /\ MaxRecords \in Nat /\ MaxFaults \in Nat

Records == 1 .. MaxRecords

VARIABLES
    now,      \* the clock, in seconds
    users,    \* the users with a document
    records,  \* the refresh-token documents, in the order of creation
    held,     \* per client: the refresh token it was answered with
    api,      \* one request per client
    purge,    \* what the purge job still has to delete
    ended,    \* history: tokens that were refreshed or logged out
    faults    \* requests that failed so far

vars == <<now, users, records, held, api, purge, ended, faults>>

Tokens == Users \X (0 .. MaxTime)
NoToken == <<>>
UserOf(token) == token[1]

RefreshTokenRecord ==
    [state : {"unborn", "stored", "deleted"}, token : Tokens \union {NoToken},
     expiresAt : 0 .. MaxTime + Ttl]

Request ==
    [pc : {"idle", "createUser", "updateUser", "issue", "findUser", "rotate", "revoke"},
     user : Users \union {NoToken}, found : SUBSET Records]

IdleRequest == [pc |-> "idle", user |-> NoToken, found |-> {}]

\* Of a document that is gone only that it is gone is kept.
RecordIn(state) == [state |-> state, token |-> NoToken, expiresAt |-> 0]

Init ==
    /\ now = 0
    /\ users = {}
    /\ records = [r \in Records |-> RecordIn("unborn")]
    /\ held = [c \in Clients |-> NoToken]
    /\ api = [c \in Clients |-> IdleRequest]
    /\ purge = {} /\ ended = {} /\ faults = 0

-----------------------------------------------------------------------------

Stored == {r \in Records : records[r].state = "stored"}

\* findByHash: findOne, so any one of the records with the hash.
findByHash(token) == {r \in Stored : records[r].token = token}

\* What a find with limit 1 may return.
FirstOf(rows) == IF rows = {} THEN {{}} ELSE {{r} : r \in rows}

listForUser(user) == {r \in Stored : UserOf(records[r].token) = user}

\* jsonwebtoken rejects a token from the second of its expiry on.
verifyRefreshToken(token) == now < token[2] + JwtTtl

\* expiresAt < now, in the query of the purge and in refresh.
Expired(r) == records[r].expiresAt < now

Delete(r) == records' = [records EXCEPT ![r] = RecordIn("deleted")]
Continue(c, request) == api' = [api EXCEPT ![c] = request]
Answer(c) == Continue(c, IdleRequest)

\* register and login: the ID token was verified, and syncUser has read the document.
BeginLogin(c) ==
    /\ api[c].pc = "idle" /\ held[c] = NoToken
    /\ \E u \in Users :
        Continue(c, [IdleRequest EXCEPT !.user = u,
            !.pc = IF u \notin users THEN "createUser" ELSE "updateUser"])
    /\ UNCHANGED <<now, users, records, held, purge, ended, faults>>

\* create sets the document with its defaults, whatever was stored since the read.
CreateUser(c) ==
    /\ api[c].pc = "createUser"
    /\ users' = users \union {api[c].user}
    /\ Continue(c, [api[c] EXCEPT !.pc = "issue"])
    /\ UNCHANGED <<now, records, held, purge, ended, faults>>

\* The patch of syncUser has the identity fields only.
UpdateUser(c) ==
    /\ api[c].pc = "updateUser"
    /\ Continue(c, [api[c] EXCEPT !.pc = "issue"])
    /\ UNCHANGED <<now, users, records, held, purge, ended, faults>>

\* Slip: the record is given twice the time.
IssueSessionLonger(c) ==
    /\ api[c].pc = "issue"
    /\ \E r \in Records :
        /\ records[r].state = "unborn" /\ \A q \in Records : q < r => records[q].state # "unborn"
        /\ records' = [records EXCEPT
             ![r] = [state |-> "stored", token |-> <<api[c].user, now>>, expiresAt |-> now + 2 * Ttl]]
    /\ held' = [held EXCEPT ![c] = <<api[c].user, now>>]
    /\ ended' = ended \ {<<api[c].user, now>>}
    /\ Answer(c)
    /\ UNCHANGED <<now, users, purge, faults>>

\* issueSession, at the end of login, register and refresh: a token is signed and stored.
IssueSession(c) ==
    /\ api[c].pc = "issue"
    /\ \E r \in Records :
        /\ records[r].state = "unborn" /\ \A q \in Records : q < r => records[q].state # "unborn"
        /\ records' = [records EXCEPT
             ![r] = [state |-> "stored", token |-> <<api[c].user, now>>, expiresAt |-> now + Ttl]]
    /\ held' = [held EXCEPT ![c] = <<api[c].user, now>>]
    /\ ended' = ended \ {<<api[c].user, now>>}
    /\ Answer(c)
    /\ UNCHANGED <<now, users, purge, faults>>

\* refresh verifies the token and finds its record.
BeginRefresh(c) ==
    /\ api[c].pc = "idle" /\ held[c] # NoToken
    /\ verifyRefreshToken(held[c])
    /\ \E r \in findByHash(held[c]) :
        Continue(c, [IdleRequest EXCEPT !.user = UserOf(held[c]), !.found = {r},
                        !.pc = IF Expired(r) THEN "revoke" ELSE "findUser"])
    /\ ended' = ended \union {held[c]}
    /\ UNCHANGED <<now, users, records, held, purge, faults>>

\* The token is expired or has no record: the client is told to log in again.
RefreshRejected(c) ==
    /\ api[c].pc = "idle" /\ held[c] # NoToken
    /\ ~verifyRefreshToken(held[c]) \/ findByHash(held[c]) = {}
    /\ held' = [held EXCEPT ![c] = NoToken]
    /\ UNCHANGED <<now, users, records, api, purge, ended, faults>>

FindUser(c) ==
    /\ api[c].pc = "findUser"
    /\ api[c].user \in users
    /\ Continue(c, [api[c] EXCEPT !.pc = "rotate"])
    /\ UNCHANGED <<now, users, records, held, purge, ended, faults>>

\* The used record is deleted; the new session is issued next.
Rotate(c) ==
    /\ api[c].pc = "rotate"
    /\ \E r \in api[c].found : Delete(r)
    /\ Continue(c, [api[c] EXCEPT !.pc = "issue", !.found = {}])
    /\ UNCHANGED <<now, users, held, purge, ended, faults>>

\* Slip: every record is listed, not the user's.
BeginLogoutOfAll(c) ==
    /\ api[c].pc = "idle" /\ held[c] # NoToken
    /\ Continue(c, [IdleRequest EXCEPT !.pc = "revoke", !.found = Stored])
    /\ ended' = ended \union {records[r].token : r \in listForUser(UserOf(held[c]))}
    /\ UNCHANGED <<now, users, records, held, purge, faults>>

\* logout lists the records to revoke: that of the token, or every one of the user.
BeginLogout(c) ==
    /\ api[c].pc = "idle" /\ held[c] # NoToken
    /\ \E found \in {listForUser(UserOf(held[c]))} \union FirstOf(findByHash(held[c])) :
        /\ Continue(c, [IdleRequest EXCEPT !.pc = "revoke", !.found = found])
        /\ ended' = ended \union {held[c]} \union {records[r].token : r \in found}
    /\ UNCHANGED <<now, users, records, held, purge, faults>>

\* One delete of Promise.all, or of an expired record that was presented.
RevokeOne(c) ==
    /\ api[c].pc = "revoke"
    /\ \E r \in api[c].found :
        /\ Delete(r)
        /\ Continue(c, [api[c] EXCEPT !.found = @ \ {r}])
    /\ UNCHANGED <<now, users, held, purge, ended, faults>>

LoggedOut(c) ==
    /\ api[c].pc = "revoke" /\ api[c].found = {}
    /\ held' = [held EXCEPT ![c] = NoToken]
    /\ Answer(c)
    /\ UNCHANGED <<now, users, records, purge, ended, faults>>

\* A request rejects or its function is cut off: what was stored stays, no token is answered.
RequestFails(c) ==
    /\ api[c].pc # "idle" /\ faults < MaxFaults
    /\ faults' = faults + 1
    /\ held' = [held EXCEPT ![c] = NoToken]
    /\ Answer(c)
    /\ UNCHANGED <<now, users, records, purge, ended>>

-----------------------------------------------------------------------------
(* The maintenance job.                                                     *)

\* Slip: the query compares the other way round, and the second comparison keeps nothing.
BeginPurgeReversed ==
    /\ purge = {}
    /\ purge' = {r \in Stored : records[r].expiresAt > now /\ Expired(r)}
    /\ purge' # {}
    /\ UNCHANGED <<now, users, records, held, api, ended, faults>>

\* deleteExpired: the query, and the second comparison on the rows it returned.
BeginPurge ==
    /\ purge = {}
    /\ purge' = {r \in Stored : Expired(r)}
    /\ purge' # {}
    /\ UNCHANGED <<now, users, records, held, api, ended, faults>>

PurgeOne ==
    \E r \in purge :
        /\ Delete(r)
        /\ purge' = purge \ {r}
        /\ UNCHANGED <<now, users, held, api, ended, faults>>

\* The worker dies in the middle: the next run starts from what is left.
PurgeFails ==
    /\ purge # {} /\ faults < MaxFaults
    /\ faults' = faults + 1
    /\ purge' = {}
    /\ UNCHANGED <<now, users, records, held, api, ended>>

Tick ==
    /\ now < MaxTime
    /\ now' = now + 1
    /\ UNCHANGED <<users, records, held, api, purge, ended, faults>>

Process(c) ==
    \/ BeginLogin(c) \/ CreateUser(c) \/ UpdateUser(c) \/ IssueSession(c)
    \/ BeginRefresh(c) \/ RefreshRejected(c) \/ FindUser(c) \/ Rotate(c)
    \/ BeginLogout(c) \/ RevokeOne(c) \/ LoggedOut(c)
    \/ RequestFails(c)

Next ==
    \/ \E c \in Clients : Process(c)
    \/ BeginPurge \/ PurgeOne \/ PurgeFails
    \/ Tick

\* The scheduler repeats CLEANUP_EXPIRED_TOKENS every day, and a stalled job runs again.
Fairness == WF_vars(BeginPurge) /\ WF_vars(PurgeOne)

Spec == Init /\ [][Next]_vars /\ Fairness

-----------------------------------------------------------------------------
(* Properties.                                                              *)

\* The records keep their shape, and every stored one has a token and the time left to it.
TypeOK ==
    /\ now \in 0 .. MaxTime /\ faults \in 0 .. MaxFaults
    /\ users \subseteq Users
    /\ records \in [Records -> RefreshTokenRecord]
    /\ \A r \in Stored : records[r].token \in Tokens /\ records[r].expiresAt = records[r].token[2] + Ttl
    /\ held \in [Clients -> Tokens \union {NoToken}]
    /\ api \in [Clients -> Request]
    /\ purge \subseteq Records /\ ended \subseteq Tokens

\* A device that was answered with a token finds its record until that token expires, is
\* refreshed, or is logged out: no purge, no other user's logout and no rotation of another
\* token ends the session.
SessionIsOnRecord ==
    \A c \in Clients :
        held[c] # NoToken /\ held[c] \notin ended /\ verifyRefreshToken(held[c]) =>
            findByHash(held[c]) # {}

\* Every record that has expired is deleted in the end, though the purge may fail on the way.
ExpiredIsPurged ==
    \A r \in Records : (records[r].state = "stored" /\ Expired(r)) ~> (records[r].state = "deleted")

=============================================================================
