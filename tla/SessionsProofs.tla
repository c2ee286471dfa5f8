---------------------------- MODULE SessionsProofs ----------------------------
(***************************************************************************)
(* What holds of sessions for every number of devices, users and records,  *)
(* and every lifetime of a token.                                          *)
(*                                                                         *)
(* That a device finds the record of its token says too little to be kept: *)
(* the record may be on the list of a logout, of a rotation or of the      *)
(* purge.  What is kept is that one of the records with its token is on no *)
(* list of a request (SafeRecord); the purge lists nothing but expired     *)
(* records (PurgeIsExpired), and no request or purge lists what is not     *)
(* stored yet, so no session issued meanwhile (ListedWasStored).            *)
(***************************************************************************)
EXTENDS Sessions, TLAPS

\* A handler that goes on to sign a token knows its user.
SignerKnown ==
    \A c \in Clients :
        api[c].pc \in {"createUser", "updateUser", "issue", "findUser", "rotate"} =>
            api[c].user \in Users

\* What is listed to be deleted has been stored before.
ListedWasStored ==
    /\ \A c \in Clients : \A r \in api[c].found : records[r].state # "unborn"
    /\ \A r \in purge : records[r].state # "unborn"

PurgeIsExpired == \A r \in purge : r \in Stored => Expired(r)

\* A valid token has a record that no request is about to delete.
SafeRecord ==
    \A c \in Clients :
        held[c] # NoToken /\ held[c] \notin ended /\ verifyRefreshToken(held[c]) =>
            \E r \in findByHash(held[c]) : \A d \in Clients : r \notin api[d].found

IInv == TypeOK /\ SignerKnown /\ ListedWasStored /\ PurgeIsExpired /\ SafeRecord

-----------------------------------------------------------------------------
(* The values the steps store.                                              *)

LEMMA TokenNotNone == \A t \in Tokens : t # NoToken
  BY DEF Tokens, NoToken

LEMMA IdleRequestType == IdleRequest \in Request
  BY DEF IdleRequest, Request

\* What a document becomes when it is deleted.
LEMMA DeletedType == RecordIn("deleted") \in RefreshTokenRecord
  BY ConstantsAssumption DEF RecordIn, RefreshTokenRecord

LEMMA InitInvariant == Init => IInv
<1>. SUFFICES ASSUME Init PROVE IInv
  OBVIOUS
<1>. USE DEF Init
<1>1. RecordIn("unborn") \in RefreshTokenRecord /\ RecordIn("unborn").state = "unborn"
  BY ConstantsAssumption DEF RecordIn, RefreshTokenRecord
<1>2. Stored = {}
  BY <1>1 DEF Stored
<1>3. TypeOK
  BY <1>1, <1>2, IdleRequestType, ConstantsAssumption DEF TypeOK
<1>4. SignerKnown /\ ListedWasStored /\ PurgeIsExpired /\ SafeRecord
  BY <1>2 DEF SignerKnown, ListedWasStored, PurgeIsExpired, SafeRecord, IdleRequest
<1>. QED BY <1>3, <1>4 DEF IInv

-----------------------------------------------------------------------------
(* Steps of a request that list no record and store none.                   *)

\* A request that goes on without a list, or with the one it had, and whose
\* client keeps its token or loses it, leaves every session as it was.
LEMMA RequestStep ==
    ASSUME IInv, NEW c \in Clients, NEW request \in Request, Continue(c, request),
           request.pc \in {"createUser", "updateUser", "issue", "findUser", "rotate"} =>
                request.user \in Users,
           request.found \subseteq api[c].found,
           held' = held \/ held' = [held EXCEPT ![c] = NoToken],
           users' \subseteq Users, faults' \in 0 .. MaxFaults,
           UNCHANGED <<now, records, purge, ended>>
    PROVE  IInv'
<1>1. /\ api' \in [Clients -> Request] /\ api'[c] = request
      /\ \A d \in Clients \ {c} : api'[d] = api[d]
  BY DEF IInv, TypeOK, Continue
<1>2. /\ held' \in [Clients -> Tokens \union {NoToken}]
      /\ \A d \in Clients : held'[d] # NoToken => held'[d] = held[d]
  BY DEF IInv, TypeOK
<1>3. TypeOK'
  BY <1>1, <1>2 DEF IInv, TypeOK, Stored
<1>4. SignerKnown'
  BY <1>1 DEF IInv, SignerKnown
<1>5. ListedWasStored'
  BY <1>1 DEF IInv, ListedWasStored
<1>6. PurgeIsExpired'
  BY DEF IInv, PurgeIsExpired, Stored, Expired
<1>7. SafeRecord'
  <2>1. \A d \in Clients : api'[d].found \subseteq api[d].found
    BY <1>1
  <2>2. ASSUME NEW d \in Clients, held[d] # NoToken, held[d] \notin ended,
               verifyRefreshToken(held[d])
        PROVE  \E r \in findByHash(held[d]) : \A e \in Clients : r \notin api'[e].found
    BY <2>1, <2>2 DEF IInv, SafeRecord
  <2>. QED BY <1>2, <2>2 DEF SafeRecord, findByHash, Stored, verifyRefreshToken
<1>. QED BY <1>3, <1>4, <1>5, <1>6, <1>7 DEF IInv

LEMMA BeginLoginKeeps ==
    ASSUME IInv, NEW c \in Clients, BeginLogin(c)
    PROVE  IInv'
<1>1. PICK u \in Users : Continue(c, [IdleRequest EXCEPT !.user = u,
                            !.pc = IF u \notin users THEN "createUser" ELSE "updateUser"])
  BY DEF BeginLogin
<1>2. ASSUME NEW pc \in {"createUser", "updateUser"}
      PROVE  /\ [IdleRequest EXCEPT !.user = u, !.pc = pc] \in Request
             /\ [IdleRequest EXCEPT !.user = u, !.pc = pc].user = u
             /\ [IdleRequest EXCEPT !.user = u, !.pc = pc].found = {}
  BY DEF IdleRequest, Request
<1>3. PICK pc \in {"createUser", "updateUser"} :
        Continue(c, [IdleRequest EXCEPT !.user = u, !.pc = pc])
  BY <1>1
<1>4. UNCHANGED <<now, users, records, held, purge, ended, faults>>
  BY DEF BeginLogin
<1>5. users' \subseteq Users /\ faults' \in 0 .. MaxFaults
  BY <1>4 DEF IInv, TypeOK
<1>6. PICK request \in Request : /\ Continue(c, request)
                                 /\ request.user = u /\ request.found = {}
  <2>. DEFINE request == [IdleRequest EXCEPT !.user = u, !.pc = pc]
  <2>1. request \in Request /\ request.user = u /\ request.found = {}
    BY <1>2
  <2>2. Continue(c, request)
    BY <1>3
  <2>. HIDE DEF request
  <2>. QED BY <2>1, <2>2
<1>. QED BY <1>4, <1>5, <1>6, RequestStep

\* A request that moves on to its next await, with the user it had.
LEMMA MoveOn ==
    ASSUME IInv, NEW c \in Clients, NEW pc \in {"issue", "rotate"},
           api[c].pc \in {"createUser", "updateUser", "findUser"},
           Continue(c, [api[c] EXCEPT !.pc = pc]),
           users' \subseteq Users, UNCHANGED <<now, records, held, purge, ended, faults>>
    PROVE  IInv'
<1>1. api[c] \in Request /\ api[c].user \in Users
  BY DEF IInv, TypeOK, SignerKnown
<1>2. PICK request \in Request : /\ Continue(c, request)
                                 /\ request.user = api[c].user /\ request.found = api[c].found
  <2>. DEFINE request == [api[c] EXCEPT !.pc = pc]
  <2>1. request \in Request /\ request.user = api[c].user /\ request.found = api[c].found
    BY <1>1 DEF Request
  <2>. HIDE DEF request
  <2>2. Continue(c, request)
    BY DEF request
  <2>. QED BY <2>1, <2>2
<1>3. faults' \in 0 .. MaxFaults
  BY DEF IInv, TypeOK
<1>. QED BY <1>1, <1>2, <1>3, RequestStep

LEMMA UserStepKeeps ==
    ASSUME IInv, NEW c \in Clients, CreateUser(c) \/ UpdateUser(c) \/ FindUser(c)
    PROVE  IInv'
<1>1. CASE CreateUser(c)
  <2>1. users' \subseteq Users
    BY <1>1 DEF CreateUser, IInv, TypeOK, SignerKnown
  <2>. QED BY <1>1, <2>1, MoveOn DEF CreateUser
<1>2. CASE UpdateUser(c)
  BY <1>2, MoveOn DEF UpdateUser, IInv, TypeOK
<1>3. CASE FindUser(c)
  BY <1>3, MoveOn DEF FindUser, IInv, TypeOK
<1>. QED BY <1>1, <1>2, <1>3

LEMMA AnswerKeeps ==
    ASSUME IInv, NEW c \in Clients, LoggedOut(c) \/ RequestFails(c)
    PROVE  IInv'
<1>1. users' \subseteq Users /\ faults' \in 0 .. MaxFaults
  BY ConstantsAssumption DEF LoggedOut, RequestFails, IInv, TypeOK
<1>2. IdleRequest.pc = "idle" /\ IdleRequest.found = {}
  BY DEF IdleRequest
<1>. QED BY <1>1, <1>2, IdleRequestType, RequestStep DEF LoggedOut, RequestFails, Answer

LEMMA RefreshRejectedKeeps ==
    ASSUME IInv, NEW c \in Clients, RefreshRejected(c)
    PROVE  IInv'
<1>1. TypeOK'
  BY DEF RefreshRejected, IInv, TypeOK, Stored
<1>2. SignerKnown' /\ ListedWasStored' /\ PurgeIsExpired'
  BY DEF RefreshRejected, IInv, SignerKnown, ListedWasStored, PurgeIsExpired, Stored, Expired
<1>3. \A d \in Clients : held'[d] # NoToken => held'[d] = held[d]
  BY DEF RefreshRejected, IInv, TypeOK
<1>4. SafeRecord'
  BY <1>3 DEF RefreshRejected, IInv, SafeRecord, findByHash, Stored, verifyRefreshToken
<1>. QED BY <1>1, <1>2, <1>4 DEF IInv

-----------------------------------------------------------------------------
(* Steps that list records, delete them or store one.                       *)

\* A request lists records of tokens that it ends.
LEMMA ListStep ==
    ASSUME IInv, NEW c \in Clients, NEW request \in Request, Continue(c, request),
           request.pc \in {"createUser", "updateUser", "issue", "findUser", "rotate"} =>
                request.user \in Users,
           request.found \subseteq Stored, \A r \in request.found : records[r].token \in ended',
           ended \subseteq ended', ended' \subseteq Tokens,
           UNCHANGED <<now, users, records, held, purge, faults>>
    PROVE  IInv'
<1>1. /\ api' \in [Clients -> Request] /\ api'[c] = request
      /\ \A d \in Clients \ {c} : api'[d] = api[d]
  BY DEF IInv, TypeOK, Continue
<1>2. TypeOK'
  BY <1>1 DEF IInv, TypeOK, Stored
<1>3. SignerKnown'
  BY <1>1 DEF IInv, SignerKnown
<1>4. ListedWasStored'
  BY <1>1 DEF IInv, ListedWasStored, Stored
<1>5. PurgeIsExpired'
  BY DEF IInv, PurgeIsExpired, Stored, Expired
<1>6. SafeRecord'
  <2>. SUFFICES ASSUME NEW d \in Clients, held[d] # NoToken, held[d] \notin ended',
                       verifyRefreshToken(held[d])
                PROVE  \E r \in findByHash(held[d]) : \A e \in Clients : r \notin api'[e].found
    BY DEF SafeRecord, findByHash, Stored, verifyRefreshToken
  <2>1. PICK r \in findByHash(held[d]) : \A e \in Clients : r \notin api[e].found
    BY DEF IInv, SafeRecord
  <2>2. r \notin request.found
    BY DEF findByHash
  <2>. QED BY <1>1, <2>1, <2>2
<1>. QED BY <1>2, <1>3, <1>4, <1>5, <1>6 DEF IInv

LEMMA BeginRefreshKeeps ==
    ASSUME IInv, NEW c \in Clients, BeginRefresh(c)
    PROVE  IInv'
<1>1. PICK r \in findByHash(held[c]) :
        Continue(c, [IdleRequest EXCEPT !.user = UserOf(held[c]), !.found = {r},
                        !.pc = IF Expired(r) THEN "revoke" ELSE "findUser"])
  BY DEF BeginRefresh
<1>2. held[c] \in Tokens /\ UserOf(held[c]) \in Users
  BY DEF BeginRefresh, IInv, TypeOK, Tokens, UserOf
<1>3. r \in Stored /\ records[r].token = held[c] /\ {r} \subseteq Records
  BY DEF findByHash, Stored
<1>4. PICK pc \in {"revoke", "findUser"} : pc = IF Expired(r) THEN "revoke" ELSE "findUser"
  OBVIOUS
<1>5. PICK request \in Request : /\ Continue(c, request)
                                 /\ request.user \in Users /\ request.found = {r}
  <2>. DEFINE request == [IdleRequest EXCEPT !.user = UserOf(held[c]), !.found = {r}, !.pc = pc]
  <2>1. request \in Request /\ request.user = UserOf(held[c]) /\ request.found = {r}
    BY <1>2, <1>3, IdleRequestType DEF Request
  <2>2. Continue(c, request)
    BY <1>1, <1>4
  <2>. HIDE DEF request
  <2>. QED BY <1>2, <2>1, <2>2
<1>6. /\ ended' = ended \union {held[c]} /\ ended \subseteq Tokens
      /\ UNCHANGED <<now, users, records, held, purge, faults>>
  BY DEF BeginRefresh, IInv, TypeOK
<1>. QED BY <1>2, <1>3, <1>5, <1>6, ListStep

LEMMA BeginLogoutKeeps ==
    ASSUME IInv, NEW c \in Clients, BeginLogout(c)
    PROVE  IInv'
<1>1. PICK found \in {listForUser(UserOf(held[c]))} \union FirstOf(findByHash(held[c])) :
        /\ Continue(c, [IdleRequest EXCEPT !.pc = "revoke", !.found = found])
        /\ ended' = ended \union {held[c]} \union {records[r].token : r \in found}
  BY DEF BeginLogout
<1>2. found \subseteq Stored /\ found \in SUBSET Records
  BY DEF listForUser, FirstOf, findByHash, Stored
<1>3. PICK request \in Request : /\ Continue(c, request)
                                 /\ request.pc = "revoke" /\ request.found = found
  <2>. DEFINE request == [IdleRequest EXCEPT !.pc = "revoke", !.found = found]
  <2>1. request \in Request /\ request.pc = "revoke" /\ request.found = found
    BY <1>2, IdleRequestType DEF Request
  <2>2. Continue(c, request)
    BY <1>1
  <2>. HIDE DEF request
  <2>. QED BY <2>1, <2>2
<1>4. ended' \subseteq Tokens
  BY <1>1, <1>2 DEF BeginLogout, IInv, TypeOK
<1>5. UNCHANGED <<now, users, records, held, purge, faults>>
  BY DEF BeginLogout
<1>. QED BY <1>1, <1>2, <1>3, <1>4, <1>5, ListStep

\* A record that was listed is deleted: by the request that listed it, or by the purge.
LEMMA DeleteStep ==
    ASSUME IInv, NEW r \in Records, Delete(r),
           r \in purge \/ \E c \in Clients : r \in api[c].found,
           api' \in [Clients -> Request], \A c \in Clients : api'[c].found \subseteq api[c].found,
           SignerKnown', purge' \subseteq purge,
           UNCHANGED <<now, users, held, ended, faults>>
    PROVE  IInv'
<1>1. /\ records' \in [Records -> RefreshTokenRecord]
      /\ records'[r].state = "deleted"
      /\ \A q \in Records \ {r} : records'[q] = records[q]
  BY DeletedType DEF IInv, TypeOK, Delete, RecordIn
<1>2. Stored' = Stored \ {r}
  BY <1>1 DEF Stored
<1>3. TypeOK'
  BY <1>1, <1>2 DEF IInv, TypeOK, Stored
<1>4. ListedWasStored'
  <2>1. \A q \in Records : records[q].state # "unborn" => records'[q].state # "unborn"
    BY <1>1
  <2>2. (\A c \in Clients : api[c].found \subseteq Records) /\ purge \subseteq Records
    BY DEF IInv, TypeOK, Request
  <2>. QED BY <2>1, <2>2 DEF IInv, ListedWasStored
<1>5. PurgeIsExpired'
  BY <1>1, <1>2 DEF IInv, PurgeIsExpired, Stored, Expired
<1>6. SafeRecord'
  <2>. SUFFICES ASSUME NEW d \in Clients, held[d] # NoToken, held[d] \notin ended,
                       verifyRefreshToken(held[d])
                PROVE  \E q \in Stored' : /\ records'[q].token = held[d]
                                          /\ \A e \in Clients : q \notin api'[e].found
    BY DEF SafeRecord, findByHash, verifyRefreshToken
  <2>1. PICK q \in findByHash(held[d]) : \A e \in Clients : q \notin api[e].found
    BY DEF IInv, SafeRecord
  <2>2. q \in Stored /\ q \in Records /\ records[q].token = held[d]
    BY DEF findByHash, Stored
  <2>3. ~Expired(q)
    <3>1. /\ now \in Nat /\ JwtTtl \in Nat /\ Ttl \in Nat /\ JwtTtl <= Ttl
          /\ held[d][2] \in Nat /\ records[q].expiresAt = held[d][2] + Ttl
      BY <2>2, ConstantsAssumption DEF IInv, TypeOK, Tokens
    <3>. QED BY <3>1 DEF verifyRefreshToken, Expired
  <2>4. q # r
    BY <2>1, <2>2, <2>3 DEF IInv, PurgeIsExpired
  <2>. QED BY <1>1, <1>2, <2>1, <2>2, <2>4
<1>. QED BY <1>3, <1>4, <1>5, <1>6 DEF IInv

LEMMA DeleteListedKeeps ==
    ASSUME IInv, NEW c \in Clients, Rotate(c) \/ RevokeOne(c)
    PROVE  IInv'
<1>1. api[c] \in Request /\ api[c].found \subseteq Records
  BY DEF IInv, TypeOK, Request
<1>2. PICK r \in api[c].found : Delete(r)
  BY DEF Rotate, RevokeOne
<1>3. PICK request \in Request :
        /\ Continue(c, request) /\ request.user = api[c].user /\ request.found \subseteq api[c].found
        /\ api[c].pc = "rotate" \/ request.pc = "revoke"
  <2>1. CASE Rotate(c)
    <3>. DEFINE request == [api[c] EXCEPT !.pc = "issue", !.found = {}]
    <3>1. request \in Request /\ request.user = api[c].user /\ request.found = {}
      BY <1>1 DEF Request
    <3>2. Continue(c, request) /\ api[c].pc = "rotate"
      BY <2>1 DEF Rotate
    <3>. HIDE DEF request
    <3>. QED BY <3>1, <3>2
  <2>2. CASE RevokeOne(c)
    <3>1. PICK q \in api[c].found : Continue(c, [api[c] EXCEPT !.found = @ \ {q}])
      BY <2>2 DEF RevokeOne
    <3>. DEFINE request == [api[c] EXCEPT !.found = @ \ {q}]
    <3>2. /\ request \in Request /\ request.user = api[c].user
          /\ request.found = api[c].found \ {q} /\ request.pc = api[c].pc
      BY <1>1 DEF Request
    <3>3. Continue(c, request) /\ api[c].pc = "revoke"
      BY <2>2, <3>1 DEF RevokeOne
    <3>. HIDE DEF request
    <3>. QED BY <3>2, <3>3
  <2>. QED BY <2>1, <2>2
<1>4. /\ api' \in [Clients -> Request] /\ api'[c] = request
      /\ \A d \in Clients \ {c} : api'[d] = api[d]
  BY <1>3 DEF IInv, TypeOK, Continue
<1>5. SignerKnown'
  BY <1>3, <1>4 DEF IInv, SignerKnown
<1>6. \A d \in Clients : api'[d].found \subseteq api[d].found
  BY <1>3, <1>4
<1>7. UNCHANGED <<now, users, held, purge, ended, faults>>
  BY DEF Rotate, RevokeOne
<1>. QED BY <1>1, <1>2, <1>4, <1>5, <1>6, <1>7, DeleteStep

\* issueSession stores a record for a token that may have been signed, ended and
\* listed before, in the same second: the new record is on no list.
LEMMA IssueSessionKeeps ==
    ASSUME IInv, NEW c \in Clients, IssueSession(c)
    PROVE  IInv'
<1>. DEFINE token == <<api[c].user, now>>
<1>1. PICK r \in Records :
        /\ records[r].state = "unborn"
        /\ records' = [records EXCEPT
             ![r] = [state |-> "stored", token |-> <<api[c].user, now>>, expiresAt |-> now + Ttl]]
  BY DEF IssueSession
<1>2. /\ now \in 0 .. MaxTime /\ now + Ttl \in 0 .. MaxTime + Ttl /\ api[c].user \in Users
  BY ConstantsAssumption DEF IssueSession, IInv, TypeOK, SignerKnown
<1>3. token \in Tokens /\ token[2] = now
  BY <1>2 DEF Tokens
<1>4. PICK t \in Tokens : t = token
  BY <1>3
<1>5. /\ records' \in [Records -> RefreshTokenRecord]
      /\ records'[r].state = "stored" /\ records'[r].token = t /\ records'[r].expiresAt = t[2] + Ttl
      /\ \A q \in Records \ {r} : records'[q] = records[q]
  <2>1. [state |-> "stored", token |-> token, expiresAt |-> now + Ttl] \in RefreshTokenRecord
    BY <1>2, <1>3 DEF RefreshTokenRecord
  <2>. QED BY <1>1, <1>3, <1>4, <2>1 DEF IInv, TypeOK
<1>6. /\ held' = [held EXCEPT ![c] = t] /\ ended' = ended \ {t}
      /\ UNCHANGED <<now, users, purge, faults>>
  BY <1>4 DEF IssueSession
<1>7. /\ held' \in [Clients -> Tokens \union {NoToken}]
      /\ held'[c] = t /\ \A d \in Clients \ {c} : held'[d] = held[d]
  BY <1>6 DEF IInv, TypeOK
<1>8. /\ api' \in [Clients -> Request] /\ api'[c].pc = "idle" /\ api'[c].found = {}
      /\ \A d \in Clients \ {c} : api'[d] = api[d]
  <2>1. IdleRequest.pc = "idle" /\ IdleRequest.found = {}
    BY DEF IdleRequest
  <2>. QED BY <2>1, IdleRequestType DEF IssueSession, Answer, Continue, IInv, TypeOK
<1>9. Stored' = Stored \union {r} /\ r \notin Stored
  BY <1>1, <1>5 DEF Stored
<1>10. r \notin purge /\ \A d \in Clients : r \notin api'[d].found
  BY <1>1, <1>8 DEF IInv, ListedWasStored
<1>11. TypeOK'
  <2>1. \A q \in Stored' :
            records'[q].token \in Tokens /\ records'[q].expiresAt = records'[q].token[2] + Ttl
    BY <1>5, <1>9 DEF IInv, TypeOK, Stored
  <2>. QED BY <1>5, <1>6, <1>7, <1>8, <2>1 DEF IInv, TypeOK
<1>12. SignerKnown'
  BY <1>8 DEF IInv, SignerKnown
<1>13. ListedWasStored'
  <2>1. \A q \in Records : records[q].state # "unborn" => records'[q].state # "unborn"
    BY <1>5
  <2>2. (\A d \in Clients : api[d].found \subseteq Records) /\ purge \subseteq Records
    BY DEF IInv, TypeOK, Request
  <2>. QED BY <1>6, <1>8, <2>1, <2>2 DEF IInv, ListedWasStored
<1>14. PurgeIsExpired'
  <2>. SUFFICES ASSUME NEW q \in purge, q \in Stored' PROVE records'[q].expiresAt < now
    BY <1>6 DEF PurgeIsExpired, Expired
  <2>1. q \in Stored /\ q \in Records \ {r}
    BY <1>9, <1>10 DEF Stored
  <2>. QED BY <1>5, <2>1 DEF IInv, PurgeIsExpired, Expired
<1>15. SafeRecord'
  <2>. SUFFICES ASSUME NEW d \in Clients, held'[d] # NoToken, held'[d] \notin ended',
                       verifyRefreshToken(held'[d])
                PROVE  \E q \in Stored' : /\ records'[q].token = held'[d]
                                          /\ \A e \in Clients : q \notin api'[e].found
    BY <1>6 DEF SafeRecord, findByHash, verifyRefreshToken
  <2>1. CASE held'[d] = t
    BY <1>5, <1>9, <1>10, <2>1
  <2>2. CASE held'[d] # t
    <3>1. held'[d] = held[d] /\ held[d] \notin ended
      BY <1>6, <1>7, <2>2
    <3>2. PICK q \in findByHash(held[d]) : \A e \in Clients : q \notin api[e].found
      BY <3>1 DEF IInv, SafeRecord
    <3>3. q \in Stored /\ q \in Records \ {r} /\ records[q].token = held[d]
      BY <1>9, <3>2 DEF findByHash, Stored
    <3>. QED BY <1>5, <1>8, <1>9, <3>1, <3>2, <3>3
  <2>. QED BY <2>1, <2>2
<1>. QED BY <1>11, <1>12, <1>13, <1>14, <1>15 DEF IInv

-----------------------------------------------------------------------------
(* The purge, and the clock.                                                *)

LEMMA PurgeKeeps ==
    ASSUME IInv, BeginPurge \/ PurgeFails
    PROVE  IInv'
<1>1. purge' \subseteq Stored /\ \A r \in purge' : Expired(r)
  BY DEF BeginPurge, PurgeFails
<1>2. UNCHANGED <<now, users, records, held, api, ended>> /\ faults' \in 0 .. MaxFaults
  BY ConstantsAssumption DEF BeginPurge, PurgeFails, IInv, TypeOK
<1>3. TypeOK'
  BY <1>1, <1>2 DEF IInv, TypeOK, Stored
<1>4. SignerKnown' /\ SafeRecord'
  BY <1>2 DEF IInv, SignerKnown, SafeRecord, findByHash, Stored, verifyRefreshToken
<1>5. ListedWasStored' /\ PurgeIsExpired'
  BY <1>1, <1>2 DEF IInv, ListedWasStored, PurgeIsExpired, Stored, Expired
<1>. QED BY <1>3, <1>4, <1>5 DEF IInv

LEMMA PurgeOneKeeps ==
    ASSUME IInv, PurgeOne
    PROVE  IInv'
<1>1. PICK r \in purge : /\ Delete(r) /\ purge' = purge \ {r}
                         /\ UNCHANGED <<now, users, held, api, ended, faults>>
  BY DEF PurgeOne
<1>2. r \in Records /\ api' \in [Clients -> Request]
  BY <1>1 DEF IInv, TypeOK
<1>3. SignerKnown'
  BY <1>1 DEF IInv, SignerKnown
<1>. QED BY <1>1, <1>2, <1>3, DeleteStep

LEMMA TickKeeps ==
    ASSUME IInv, Tick
    PROVE  IInv'
<1>1. /\ now \in Nat /\ now' = now + 1 /\ now' \in 0 .. MaxTime
      /\ UNCHANGED <<users, records, held, api, purge, ended, faults>>
  BY ConstantsAssumption DEF Tick, IInv, TypeOK
<1>2. TypeOK'
  BY <1>1 DEF IInv, TypeOK, Stored
<1>3. SignerKnown' /\ ListedWasStored'
  BY <1>1 DEF IInv, SignerKnown, ListedWasStored
<1>4. \A r \in Records : records[r].expiresAt \in Int
  BY ConstantsAssumption DEF IInv, TypeOK, RefreshTokenRecord
<1>5. PurgeIsExpired'
  BY <1>1, <1>4 DEF IInv, PurgeIsExpired, Stored, Expired
<1>6. SafeRecord'
  <2>1. ASSUME NEW d \in Clients, held[d] # NoToken, verifyRefreshToken(held[d])'
        PROVE  verifyRefreshToken(held[d])
    <3>1. held[d][2] \in Nat /\ JwtTtl \in Nat
      BY <2>1, ConstantsAssumption DEF IInv, TypeOK, Tokens
    <3>. QED BY <1>1, <2>1, <3>1 DEF verifyRefreshToken
  <2>. QED BY <1>1, <2>1 DEF IInv, SafeRecord, findByHash, Stored
<1>. QED BY <1>2, <1>3, <1>5, <1>6 DEF IInv

-----------------------------------------------------------------------------
(* Every step.                                                              *)

LEMMA NextInvariant ==
    ASSUME IInv, [Next]_vars
    PROVE  IInv'
<1>1. CASE UNCHANGED vars
  BY <1>1 DEF vars, IInv, TypeOK, SignerKnown, ListedWasStored, PurgeIsExpired, SafeRecord,
              findByHash, Stored, Expired, verifyRefreshToken
<1>2. ASSUME NEW c \in Clients, Process(c) PROVE IInv'
  BY <1>2, BeginLoginKeeps, UserStepKeeps, IssueSessionKeeps, BeginRefreshKeeps,
     RefreshRejectedKeeps, DeleteListedKeeps, BeginLogoutKeeps, AnswerKeeps DEF Process
<1>. QED BY <1>1, <1>2, PurgeKeeps, PurgeOneKeeps, TickKeeps DEF Next

THEOREM Invariant == Spec => []IInv
<1>1. Init => IInv
  BY InitInvariant
<1>2. IInv /\ [Next]_vars => IInv'
  BY NextInvariant
<1>. QED BY <1>1, <1>2, PTL DEF Spec

\* The users, the refresh-token records and the handlers keep their shape, and
\* every stored record has the token and the expiry it was issued with.
THEOREM TypeCorrect == Spec => []TypeOK
<1>1. IInv => TypeOK
  BY DEF IInv
<1>. QED BY <1>1, Invariant, PTL

\* A device finds the record of its refresh token until the token expires, is
\* rotated or is logged out, though two tokens of one second are the same token
\* and the purge, logouts and rotations delete what they listed before.
THEOREM SessionStaysOnRecord == Spec => []SessionIsOnRecord
<1>1. IInv => SessionIsOnRecord
  BY DEF IInv, SafeRecord, SessionIsOnRecord
<1>. QED BY <1>1, Invariant, PTL

=============================================================================
