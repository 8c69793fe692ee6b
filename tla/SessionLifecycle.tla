-------------------------- MODULE SessionLifecycle --------------------------
(***************************************************************************)
(* The life of a client session: the handlers of POST /sessions/start and  *)
(* of PUT /sessions/:id/status/{completed,timeout}, running concurrently   *)
(* over the state they share, none of which lives in the service itself:   *)
(* the client_sessions table (PostgreSQL), the users and queues of the     *)
(* message broker (RabbitMQ) and the authorisations and tokens of the      *)
(* users-service.                                                          *)
(*                                                                         *)
(* A handler is one goroutine of the HTTP server.  Each of its external    *)
(* calls is one step; nothing locks the shared state between two calls.    *)
(* A call that fails may or may not have had its effect: the answer can    *)
(* be lost after the other side has applied the request, and a request     *)
(* whose client has gone has its context cancelled in the middle of an SQL *)
(* statement.                                                              *)
(*                                                                         *)
(* A definition marked "Mutant of" is not part of the specification: it is *)
(* the definition after it as a plausible mistake would have it, and shows *)
(* that a property notices the mistake (PROJECT.json, "mutants").          *)
(***************************************************************************)
EXTENDS Naturals, Sequences

CONSTANTS
    Users,      \* users known to the users-service
    Tokens,     \* token ids the users-service has issued
    Sessions,   \* the pool of session ids uuid.New() draws from
    Requests,   \* slots for requests in progress: the degree of concurrency
    None,       \* not a user, token or session
    FaultKinds, \* which calls may fail in this instance
    MaxFaults   \* bound on the failures of one behaviour

\* "verdict" is no failed call: the users-service answers 200 for a token that is
\* not valid, and says so in the body (is_valid).
AllFaultKinds == {"users", "verdict", "db", "broker", "publish", "crash"}

ASSUME ConstantsAssumption ==
    /\ None \notin Users \cup Tokens \cup Sessions
    /\ FaultKinds \subseteq AllFaultKinds
    /\ MaxFaults \in Nat

VARIABLES
    (* client_sessions, one entry per session id *)
    status,      \* session_status; "UNUSED" before the INSERT, "DELETED" after the DELETE
    owner,       \* user_id
    tokenOf,     \* token_id
    completedAt, \* whether completed_at is set
    (* the broker *)
    broker,      \* the resources that exist for each user
    announced,   \* sessions whose notification the exchange has accepted
    (* the users-service *)
    authorized,  \* users with is_authorized = true
    revoked,     \* tokens that were revoked
    (* the requests in progress *)
    req,
    faults,      \* how often each kind of call has failed
    (* history, for the properties only *)
    creator,     \* the slot whose request inserted a session
    confirmed    \* sessions whose start was answered with success

tableVars == <<status, owner, tokenOf, completedAt, creator>>
usersVars == <<authorized, revoked>>
vars == <<tableVars, broker, announced, usersVars, req, faults, confirmed>>

-----------------------------------------------------------------------------
(* The broker's resources for a user, in the order they are created and in *)
(* the order they are deleted.  The inputs queue is declared by the        *)
(* dispatcher; this service only deletes it.                               *)

\* Mutants of SetUpOrder: an exchange of the client's own, which the comment of
\* SetUpTopologyFor names and nothing would delete; the same queue twice.
SetUpOrderWithExchange == <<"user", "exchange", "dispatcherQueue", "permissions">>
SetUpOrderQueueTwice == <<"user", "dispatcherQueue", "dispatcherQueue", "permissions">>

\* Mutants of TearDownOrder: a queue, or the broker user, is forgotten.
TearDownOrderKeepsQueue == <<"dispatcherQueue", "inputsQueue", "inputsQueue", "user">>
TearDownOrderKeepsUser == <<"dispatcherQueue", "calibrationQueue", "inputsQueue", "inputsQueue">>

SetUpOrder == <<"user", "dispatcherQueue", "calibrationQueue", "permissions">>
TearDownOrder == <<"dispatcherQueue", "calibrationQueue", "inputsQueue", "user">>
ClientTopology == {"user", "dispatcherQueue", "calibrationQueue", "permissions"}
Resources == ClientTopology \cup {"inputsQueue"}

\* Permissions can be set for an existing broker user only.
CanCreate(resource, u) == resource = "permissions" => "user" \in broker[u]

\* Deleting a broker user deletes its permissions with it.
Removed(resource) ==
    IF resource = "user" THEN {"user", "permissions"} ELSE {resource}

-----------------------------------------------------------------------------
(* Handlers.                                                               *)

Kinds == {"start", "completed", "timeout"}

StartSteps == {"fetchUser", "checkToken", "queryActive", "insert",
               "setUp", "notify", "rollback", "deleteRow"}
StatusSteps == {"getSession", "update", "revokeAuth", "revokeToken", "tearDown"}

\* What a handler returns to its controller.
Replies == {"connected", "reconnected", "updated",
            "rejected", "notFound", "conflict", "failed"}

\* The steps of a start between its INSERT and its answer.
OwnsRow == {"setUp", "notify", "rollback", "deleteRow"}

\* The position in SetUpOrder or TearDownOrder.
Steps == 1..4

Request == [pc   : {"idle"} \cup StartSteps \cup StatusSteps \cup Replies,
            kind : Kinds,
            user : Users \cup {None},
            tok  : Tokens \cup {None},
            sid  : Sessions \cup {None},
            step : Steps]

Idle == [pc |-> "idle", kind |-> "start", user |-> None, tok |-> None,
         sid |-> None, step |-> 1]

At(r, pc) == req[r].pc = pc
Goto(r, pc) == req' = [req EXCEPT ![r].pc = pc]
Begin(r, pc) == req' = [req EXCEPT ![r].pc = pc, ![r].step = 1]
Advance(r, after) ==
    IF req[r].step < 4 THEN req' = [req EXCEPT ![r].step = @ + 1]
                       ELSE Goto(r, after)

\* A call of this kind fails.
TotalFaults ==
    faults.users + faults.verdict + faults.db
        + faults.broker + faults.publish + faults.crash
Fault(kind) ==
    /\ kind \in FaultKinds
    /\ TotalFaults < MaxFaults
    /\ faults' = [faults EXCEPT ![kind] = @ + 1]

Success == UNCHANGED faults

Stored == {"IN_PROGRESS", "COMPLETED", "TIMEOUT"}
ActiveSessions(u) == {s \in Sessions : status[s] = "IN_PROGRESS" /\ owner[s] = u}

Init ==
    /\ status = [s \in Sessions |-> "UNUSED"]
    /\ owner = [s \in Sessions |-> None]
    /\ tokenOf = [s \in Sessions |-> None]
    /\ completedAt = [s \in Sessions |-> FALSE]
    /\ creator = [s \in Sessions |-> None]
    /\ broker = [u \in Users |-> {}]
    /\ announced = {}
    /\ authorized = Users
    /\ revoked = {}
    /\ req = [r \in Requests |-> Idle]
    /\ faults = [k \in AllFaultKinds |-> 0]
    /\ confirmed = {}

-----------------------------------------------------------------------------
(* POST /sessions/start: HandleClientConnection.                           *)

StartRequest(r, u, t) ==
    /\ At(r, "idle")
    /\ req' = [req EXCEPT ![r] = [Idle EXCEPT !.pc = "fetchUser",
                                              !.user = u, !.tok = t]]
    /\ UNCHANGED <<tableVars, broker, announced, usersVars, faults, confirmed>>

\* validateConnection, first call: GET /users/:id and its is_authorized.
FetchUser(r) ==
    /\ At(r, "fetchUser")
    /\ \/ req[r].user \in authorized /\ Goto(r, "checkToken") /\ Success
       \/ req[r].user \notin authorized /\ Goto(r, "rejected") /\ Success
       \/ Fault("users") /\ Goto(r, "failed")
    /\ UNCHANGED <<tableVars, broker, announced, usersVars, confirmed>>

\* Mutant of CheckToken: the status of the answer is not looked at.
CheckTokenUnchecked(r) ==
    /\ At(r, "checkToken") /\ Goto(r, "queryActive") /\ Success
    /\ UNCHANGED <<tableVars, broker, announced, usersVars, confirmed>>

\* validateConnection, second call: POST /tokens/validate.  The HTTP status of the
\* answer decides; the is_valid of its body is decoded and never looked at.
CheckToken(r) ==
    /\ At(r, "checkToken")
    /\ \/ req[r].tok \notin revoked /\ Goto(r, "queryActive") /\ Success
       \/ req[r].tok \in revoked /\ Goto(r, "rejected") /\ Success
       \/ req[r].tok \in revoked /\ Fault("verdict") /\ Goto(r, "queryActive")
       \/ Fault("users") /\ Goto(r, "failed")
    /\ UNCHANGED <<tableVars, broker, announced, usersVars, confirmed>>

\* Mutants of GetActiveSession: any session of the user, closed or not, makes this a
\* reconnection; the user is kept in a field that overlapping requests share; a failed
\* query counts as "no active session".
GetAnySession(r) ==
    /\ At(r, "queryActive") /\ Success
    /\ Goto(r, IF \E s \in Sessions : status[s] \in Stored /\ owner[s] = req[r].user
               THEN "reconnected" ELSE "insert")
    /\ UNCHANGED <<tableVars, broker, announced, usersVars, confirmed>>
GetActiveSessionOfShared(r) ==
    /\ At(r, "queryActive") /\ Success
    /\ \E q \in Requests :
          /\ req[q].pc \in StartSteps
          /\ Goto(r, IF ActiveSessions(req[q].user) # {} THEN "reconnected" ELSE "insert")
    /\ UNCHANGED <<tableVars, broker, announced, usersVars, confirmed>>
GetActiveSessionLenient(r) ==
    /\ At(r, "queryActive")
    /\ \/ ActiveSessions(req[r].user) # {} /\ Goto(r, "reconnected") /\ Success
       \/ ActiveSessions(req[r].user) = {} /\ Goto(r, "insert") /\ Success
       \/ Fault("db") /\ Goto(r, "insert")
    /\ UNCHANGED <<tableVars, broker, announced, usersVars, confirmed>>

\* An active session makes this a reconnection; otherwise a row is inserted.
GetActiveSession(r) ==
    /\ At(r, "queryActive")
    /\ \/ ActiveSessions(req[r].user) # {} /\ Goto(r, "reconnected") /\ Success
       \/ ActiveSessions(req[r].user) = {} /\ Goto(r, "insert") /\ Success
       \/ Fault("db") /\ Goto(r, "failed")
    /\ UNCHANGED <<tableVars, broker, announced, usersVars, confirmed>>

InsertRow(r, s) ==
    /\ status[s] = "UNUSED"
    /\ status' = [status EXCEPT ![s] = "IN_PROGRESS"]
    /\ owner' = [owner EXCEPT ![s] = req[r].user]
    /\ tokenOf' = [tokenOf EXCEPT ![s] = req[r].tok]
    /\ creator' = [creator EXCEPT ![s] = r]
    /\ UNCHANGED completedAt

\* The INSERT has no uniqueness constraint to violate except its fresh key.
\* A failed INSERT may have been committed.  Bound: when the pool of ids is
\* used up the INSERT fails.
CreateSession(r) ==
    /\ At(r, "insert")
    /\ \/ \E s \in Sessions :
            /\ InsertRow(r, s)
            /\ req' = [req EXCEPT ![r] = [@ EXCEPT !.pc = "setUp", !.sid = s, !.step = 1]]
            /\ Success
       \/ Fault("db") /\ Goto(r, "failed") /\ \E s \in Sessions : InsertRow(r, s)
       \/ Fault("db") /\ Goto(r, "failed") /\ UNCHANGED tableVars
       \/ /\ \A s \in Sessions : status[s] # "UNUSED"
          /\ Goto(r, "failed") /\ Success /\ UNCHANGED tableVars
    /\ UNCHANGED <<broker, announced, usersVars, confirmed>>

\* What goes through the AMQP channel that all handlers share.
Queues == {"dispatcherQueue", "calibrationQueue", "inputsQueue"}

\* CreateUser, DeclareQueue twice, SetPermissions.  The first failure ends
\* the set-up, leaves what was created, and goes to delete the row.  A declaration
\* that overlaps with another's can be told that it succeeded when it did not: both
\* read one stream of replies.
SetUpTopologyFor(r) ==
    LET u == req[r].user
        resource == SetUpOrder[req[r].step]
        created == [broker EXCEPT ![u] = @ \cup {resource}]
    IN  /\ At(r, "setUp")
        /\ \/ /\ CanCreate(resource, u)
              /\ broker' = created
              /\ Advance(r, "notify") /\ Success
           \/ /\ ~CanCreate(resource, u)
              /\ Goto(r, "deleteRow") /\ Success /\ UNCHANGED broker
           \/ /\ Fault("broker") /\ Goto(r, "deleteRow")
              /\ \/ UNCHANGED broker
                 \/ CanCreate(resource, u) /\ broker' = created
           \/ /\ Fault("broker") /\ Requests # {r} /\ resource \in Queues
              /\ Advance(r, "notify") /\ UNCHANGED broker
        /\ UNCHANGED <<tableVars, announced, usersVars, confirmed>>

\* Publish the notification.  An attempt that fails may have reached the
\* exchange; it is repeated or, after the last one, the start is rolled back.
\* A publish that the broker did not take can be told that it succeeded when it
\* overlaps with another's: both read one stream of confirmations.
NotifyNewConnection(r) ==
    LET s == req[r].sid IN
    /\ At(r, "notify")
    /\ \/ /\ announced' = announced \cup {s} /\ Success
          /\ Goto(r, "connected") /\ confirmed' = confirmed \cup {s}
       \/ /\ Fault("publish") /\ announced' \in {announced, announced \cup {s}}
          /\ UNCHANGED req \/ Begin(r, "rollback")
          /\ UNCHANGED confirmed
       \/ /\ Fault("publish") /\ Requests # {r}
          /\ UNCHANGED announced
          /\ Goto(r, "connected") /\ confirmed' = confirmed \cup {s}
    /\ UNCHANGED <<tableVars, broker, usersVars>>

\* Mutant of DeleteResource: what is deleted is not named after the user.
DeleteResourceOfAll(r, after) ==
    /\ broker' = [u \in Users |-> broker[u] \ Removed(TearDownOrder[req[r].step])]
    /\ Success /\ Advance(r, after)
    /\ UNCHANGED <<tableVars, announced, usersVars, confirmed>>

\* One deletion of DeleteTopologyFor.  Errors are logged and the next
\* deletion is tried; both callers ignore the result of the whole.
DeleteResource(r, after) ==
    LET u == req[r].user
        deleted == [broker EXCEPT ![u] = @ \ Removed(TearDownOrder[req[r].step])]
    IN  /\ \/ broker' = deleted /\ Success
           \/ Fault("broker") /\ broker' \in {broker, deleted}
        /\ Advance(r, after)
        /\ UNCHANGED <<tableVars, announced, usersVars, confirmed>>

\* Mutant of RollBackTopology: the row is not deleted.
RollBackTopologyOnly(r) == At(r, "rollback") /\ DeleteResource(r, "failed")

RollBackTopology(r) == At(r, "rollback") /\ DeleteResource(r, "deleteRow")

\* Mutants of DeleteSession: nothing is deleted; what the user has is deleted,
\* not what was inserted.
DeleteNothing(r) ==
    /\ At(r, "deleteRow") /\ Goto(r, "failed") /\ Success
    /\ UNCHANGED <<tableVars, broker, announced, usersVars, confirmed>>
DeleteSessionsOfUser(r) ==
    /\ At(r, "deleteRow")
    /\ status' = [s \in Sessions |-> IF status[s] \in Stored /\ owner[s] = req[r].user
                                     THEN "DELETED" ELSE status[s]]
    /\ Goto(r, "failed") /\ Success
    /\ UNCHANGED <<owner, tokenOf, completedAt, creator,
                   broker, announced, usersVars, confirmed>>

\* The rollback's DELETE; its error is ignored and the start fails.
DeleteSession(r) ==
    LET deleted == [status EXCEPT ![req[r].sid] = "DELETED"] IN
    /\ At(r, "deleteRow")
    /\ \/ status' = deleted /\ Success
       \/ Fault("db") /\ status' \in {status, deleted}
    /\ Goto(r, "failed")
    /\ UNCHANGED <<owner, tokenOf, completedAt, creator,
                   broker, announced, usersVars, confirmed>>

-----------------------------------------------------------------------------
(* PUT /sessions/:id/status/completed and /timeout.  A session id leaves   *)
(* the service only in its notification.                                   *)

StatusRequest(r, kind, s) ==
    /\ At(r, "idle")
    /\ s \in announced
    /\ req' = [req EXCEPT ![r] = [Idle EXCEPT !.pc = "getSession",
                                              !.kind = kind, !.sid = s]]
    /\ UNCHANGED <<tableVars, broker, announced, usersVars, faults, confirmed>>

\* Mutants of GetSessionByID: the revocations come before the UPDATE; the status
\* that was read is not checked.
GetSessionRevokesFirst(r) ==
    LET s == req[r].sid IN
    /\ At(r, "getSession") /\ Success
    /\ \/ status[s] # "IN_PROGRESS" /\ Goto(r, "conflict")
       \/ /\ status[s] = "IN_PROGRESS"
          /\ req' = [req EXCEPT ![r] = [@ EXCEPT !.pc = "revokeAuth", !.user = owner[s],
                                               !.tok = tokenOf[s]]]
    /\ UNCHANGED <<tableVars, broker, announced, usersVars, confirmed>>
GetSessionUnchecked(r) ==
    LET s == req[r].sid IN
    /\ At(r, "getSession") /\ Success
    /\ \/ status[s] \notin Stored /\ Goto(r, "notFound")
       \/ /\ status[s] \in Stored
          /\ req' = [req EXCEPT ![r] = [@ EXCEPT !.pc = "update", !.user = owner[s],
                                               !.tok = tokenOf[s]]]
    /\ UNCHANGED <<tableVars, broker, announced, usersVars, confirmed>>

\* Read the row and check that it is IN_PROGRESS.
GetSessionByID(r) ==
    LET s == req[r].sid IN
    /\ At(r, "getSession")
    /\ \/ status[s] \notin Stored /\ Goto(r, "notFound") /\ Success
       \/ status[s] \in Stored \ {"IN_PROGRESS"} /\ Goto(r, "conflict") /\ Success
       \/ /\ status[s] = "IN_PROGRESS" /\ Success
          /\ req' = [req EXCEPT ![r] = [@ EXCEPT !.pc = "update", !.user = owner[s],
                                               !.tok = tokenOf[s]]]
       \/ Fault("db") /\ Goto(r, "failed")
    /\ UNCHANGED <<tableVars, broker, announced, usersVars, confirmed>>

\* The UPDATE's WHERE clause names the row only, not the status read before.
SetRow(r) ==
    LET s == req[r].sid IN
    IF req[r].kind = "completed"
    THEN /\ status' = [status EXCEPT ![s] = "COMPLETED"]
         /\ completedAt' = [completedAt EXCEPT ![s] = TRUE]
    ELSE status' = [status EXCEPT ![s] = "TIMEOUT"] /\ UNCHANGED completedAt

UpdateSessionStatus(r) ==
    LET present == status[req[r].sid] \in Stored IN
    /\ At(r, "update")
    /\ \/ /\ present /\ SetRow(r) /\ Success
          /\ Begin(r, IF req[r].kind = "completed" THEN "revokeAuth" ELSE "tearDown")
       \/ /\ ~present /\ Goto(r, "notFound") /\ Success
          /\ UNCHANGED <<status, completedAt>>
       \/ /\ Fault("db") /\ Goto(r, "failed")
          /\ \/ present /\ SetRow(r)
             \/ UNCHANGED <<status, completedAt>>
    /\ UNCHANGED <<owner, tokenOf, creator, broker, announced, usersVars, confirmed>>

\* Mutant of RevokeAuthorization: the token is not revoked.
RevokeAuthorizationOnly(r) ==
    /\ At(r, "revokeAuth")
    /\ authorized' = authorized \ {req[r].user} /\ Begin(r, "tearDown") /\ Success
    /\ UNCHANGED <<tableVars, broker, announced, revoked, confirmed>>

\* Mutant of RevokeToken: its error is ignored.
RevokeTokenIgnoringErrors(r) ==
    /\ At(r, "revokeToken")
    /\ \/ revoked' = revoked \cup {req[r].tok} /\ Success
       \/ Fault("users") /\ UNCHANGED revoked
    /\ Begin(r, "tearDown")
    /\ UNCHANGED <<tableVars, broker, announced, authorized, confirmed>>

\* A failed revocation ends the request: what follows it is not tried, and a
\* second request for the same session is answered "conflict".
RevokeAuthorization(r) ==
    LET withdrawn == authorized \ {req[r].user} IN
    /\ At(r, "revokeAuth")
    /\ \/ authorized' = withdrawn /\ Goto(r, "revokeToken") /\ Success
       \/ Fault("users") /\ Goto(r, "failed") /\ authorized' \in {authorized, withdrawn}
    /\ UNCHANGED <<tableVars, broker, announced, revoked, confirmed>>

RevokeToken(r) ==
    LET withdrawn == revoked \cup {req[r].tok} IN
    /\ At(r, "revokeToken")
    /\ \/ revoked' = withdrawn /\ Begin(r, "tearDown") /\ Success
       \/ Fault("users") /\ Goto(r, "failed") /\ revoked' \in {revoked, withdrawn}
    /\ UNCHANGED <<tableVars, broker, announced, authorized, confirmed>>

TearDownTopology(r) == At(r, "tearDown") /\ DeleteResource(r, "updated")

-----------------------------------------------------------------------------
(* The answer is written and the goroutine ends.                           *)
Reply(r) ==
    /\ req[r].pc \in Replies
    /\ req' = [req EXCEPT ![r] = Idle]
    /\ UNCHANGED <<tableVars, broker, announced, usersVars, faults, confirmed>>

\* The process dies and is restarted; requests in progress are gone.
Crash ==
    /\ \E r \in Requests : ~At(r, "idle")
    /\ Fault("crash")
    /\ req' = [r \in Requests |-> Idle]
    /\ UNCHANGED <<tableVars, broker, announced, usersVars, confirmed>>

\* Request r is in a call that uses the AMQP connection, perhaps to replace it.
UsesAmqp(r) ==
    \/ At(r, "notify")
    \/ At(r, "setUp") /\ SetUpOrder[req[r].step] \in Queues
    \/ req[r].pc \in {"rollback", "tearDown"} /\ TearDownOrder[req[r].step] \in Queues

\* While another handler replaces the connection its channel may be nil; using
\* it ends this handler, with an answer but without the rest of its work.
Panic(r) ==
    /\ UsesAmqp(r)
    /\ \E q \in Requests \ {r} : UsesAmqp(q)
    /\ Fault("crash")
    /\ Goto(r, "failed")
    /\ UNCHANGED <<tableVars, broker, announced, usersVars, confirmed>>

\* The dispatcher receives a notification and declares its inputs queue.
DispatcherJoins(s) ==
    /\ s \in announced
    /\ broker' = [broker EXCEPT ![owner[s]] = @ \cup {"inputsQueue"}]
    /\ UNCHANGED <<tableVars, announced, usersVars, req, faults, confirmed>>

\* The users-service lets a user connect again.
Authorize(u) ==
    /\ u \notin authorized
    /\ authorized' = authorized \cup {u}
    /\ UNCHANGED <<tableVars, broker, announced, revoked, req, faults, confirmed>>

StartHandler(r) ==
    \/ FetchUser(r) \/ CheckToken(r) \/ GetActiveSession(r) \/ CreateSession(r)
    \/ SetUpTopologyFor(r) \/ NotifyNewConnection(r)
    \/ RollBackTopology(r) \/ DeleteSession(r)

StatusHandler(r) ==
    \/ GetSessionByID(r) \/ UpdateSessionStatus(r)
    \/ RevokeAuthorization(r) \/ RevokeToken(r) \/ TearDownTopology(r)

Handler(r) == StartHandler(r) \/ StatusHandler(r) \/ Reply(r)

Environment ==
    \/ \E r \in Requests, u \in Users, t \in Tokens : StartRequest(r, u, t)
    \/ \E r \in Requests, s \in Sessions :
          StatusRequest(r, "completed", s) \/ StatusRequest(r, "timeout", s)
    \/ \E s \in Sessions : DispatcherJoins(s)
    \/ \E u \in Users : Authorize(u)
    \/ Crash
    \/ \E r \in Requests : Panic(r)

Next == Environment \/ \E r \in Requests : Handler(r)

Spec == Init /\ [][Next]_vars

\* A handler that is not blocked for ever by one of its calls runs to its end.
FairSpec == Spec /\ \A r \in Requests : WF_vars(Handler(r))
=============================================================================
