# Verification of connection-service

connection-service opens and closes the sessions of clients that exchange data
with a dispatcher and a calibration service over RabbitMQ.  This directory holds
TLA+ models of it, the configurations with which TLC checks them, and proofs
checked by TLAPS.  Paths below are relative to the repository (`src/...` is the
Go code, `init.sql` the schema).

Contents: [Inventory](#inventory) · [Modules](#modules) ·
[Model and code](#model-and-code) · [Runs](#runs) · [Findings](#findings) ·
[Fairness](#fairness) · [Proofs](#proofs) · [Not modelled](#not-modelled) ·
[Plan](#plan)

## Inventory

| Component | State | Operations | Interacts with |
|---|---|---|---|
| start handler, `src/service/connection.go` | none of its own; locals of the request | `HandleClientConnection`: validate, query, insert, set up, notify, roll back | users-service, repository, topology, publisher |
| status handlers, `src/service/session.go` | none of their own | `SetSessionStatusToCompleted`, `SetSessionStatusToTimeout`, `RevokeAuthorization`, `RevokeToken` | repository, users-service, topology |
| repository, `src/repository/session_repository.go` | table `client_sessions` (`init.sql`) | one SQL statement per operation, no transaction | PostgreSQL |
| topology, `src/middleware/topology.go` | broker users, queues, permissions | `SetUpTopologyFor`, `DeleteTopologyFor` | middleware |
| middleware, `src/middleware/middleware.go` | connection, channel, stream of confirmations, cancelable context | `Connect`, `ensureConnection`, queue operations, `PublishWithRouting`, management API calls, `HandleSigterm` | RabbitMQ |
| server, `src/server` | HTTP server, signal channel, done channel | `Run`, `startServerGoroutine`, `HandleShutdown`, `ShutdownServer` | middleware, database |
| controller and errors, `src/controller`, `src/schemas/errors.go` | none | decode, call the service, write the answer with the status of the error | gin, services |
| configuration and database, `src/config`, `src/db` | settings; the connection pool | `NewConfig`, `NewDB`, `Close` | environment, PostgreSQL |
| router, other schemas | none after start-up | `NewRouter`: wiring, declares the exchange | gin, middleware |

The HTTP server runs each request in a goroutine of its own.  There is no lock
and no database transaction in the program, so everything two requests share
(the table, the broker, the users-service) can change between any two calls of
a handler.

What makes it hard:

* *Interleaving.*  The check for an active session and the INSERT are two calls;
  so are the check for `IN_PROGRESS` and the UPDATE.  The topology is addressed
  by user, the session by id: a tear-down or rollback for one session can hit
  the topology of another session of the same user.
* *Failure.*  A call can fail before or after its effect.  The rollback of a
  start uses the context of a request whose client may be gone.  A revocation
  that fails leaves a session completed whose token is valid.  The process can
  die between any two steps, and nothing repairs the shared state afterwards.
* *Delivery.*  A notification is published up to five times, and all publishers
  read their confirmations from one channel, as all queue operations read their
  replies.
* *Answers.*  The answer of the users-service to one call decides what the caller
  is told about a handler that may have changed the table and the broker before.
* *Connection, start-up and shutdown.*  Reconnecting replaces the channel without
  putting it in confirm mode; start-up goes on after errors it ignores; shutdown
  waits for requests before it cancels the middleware's context.

What makes each component correct: for the start handler, at most one active
session per user, an active session with its topology, and a failed start that
leaves nothing; for the status handlers, a closed session that stays as it was
closed, and completing that goes with revoking; for the topology, resources
exactly for the users that have a session; for the controller, a status that is
true of the state behind it; for the middleware, an answer "published" only for a
message the broker has and "declared" only for a queue that is there; for
configuration, database and server, requests accepted only when everything is
ready, and a shutdown that ends.  `PROJECT.json` lists the hazards at their lines.

## Modules

| Module | What it is |
|---|---|
| `SessionLifecycle` | the state machine of the three handlers over table, broker and users-service |
| `SessionTable` | abstract specification: what the service promises about the table |
| `SessionProperties` | type invariant, safety, action and liveness properties, and the refinement of `SessionTable` |
| `MCSession` | constants and symmetry sets for TLC; one `MCSession_<run>.cfg` per run |
| `HttpAnswers` | `SessionLifecycle` with the HTTP status each handler answers |
| `AnswersProperties` | what such a status says about the state |
| `MCAnswers` | constants for TLC; one `MCAnswers_<run>.cfg` per run |
| `SessionIsolation` | `SessionLifecycle` with clients that present their own tokens, some of them with one request at a time, and what these may rely on whatever is done for the others |
| `MCIsolation` | constants for TLC; `MCIsolation_<run>.cfg` |
| `SessionTyping_proofs` | what each kind of step does to the requests; type correctness |
| `SessionSafety_proofs` | the theorems that need no restriction, and the refinement theorem |
| `SessionSerial_proofs` | the theorems about requests that do not overlap, about failures that have not happened, about users who are careful among others, and about answers |
| `AmqpMiddleware` | the shared connection, its channel, its confirmations and replies; overlapping calls that publish, use queues and reconnect |
| `Notifier` | abstract specification: what a caller of `Publish` may rely on |
| `AmqpProperties` | properties of `AmqpMiddleware` and the refinement of `Notifier` |
| `MCAmqp` | constants for TLC; `MCAmqp_<run>.cfg` |
| `AmqpSafety_proofs` | theorems about confirmations and about the nil channel |
| `AmqpTyping_proofs` | what the steps of a call do; type correctness |
| `AmqpOverlap_proofs` | theorems about overlapping calls and the refinement theorem |
| `AmqpSerial_proofs` | theorems about calls that do not overlap |
| `ServerLifecycle` | configuration, database, start-up, signals, `HandleShutdown` and `ShutdownServer`, with handlers that may wait for a service |
| `ServerProperties` | its properties |
| `MCServer` | constants for TLC; `MCServer_<run>.cfg` |
| `ServerSafety_proofs` | the server's theorems |

How they fit together.  `HttpAnswers` extends `SessionLifecycle` by a variable:
each of its steps is one of `SessionLifecycle` together with the status that is
written if the step ends a handler, so what holds of the one holds of the other.
`SessionIsolation` restricts its steps and adds none, so its invariants are available there.
`SessionLifecycle` needs of the middleware only what
`Notifier` says; the run `amqp_overlap` shows that `AmqpMiddleware` provides it.
`ServerLifecycle` needs of `AmqpMiddleware` only that a call may wait in
`Connect` until the broker can be reached.  These three are not composed: the state
of one is the environment of the next, and its product would add nothing that
these interfaces do not say.

A definition marked *Mutant of* another is not part of a specification.  It is
that definition with a plausible mistake; `PROJECT.json` says which property
notices it.

## Model and code

### SessionLifecycle

*State.*  `status`, `owner`, `tokenOf` and `completedAt` are columns of
`client_sessions`; session ids come from a finite pool, and `"UNUSED"` and
`"DELETED"` stand for rows not yet or no longer there.  `broker[u]` is the set
of resources that exist for a user.  The exchange with its deliveries is
`announced`: a notification once accepted can be read any time later, any
number of times.  `authorized` and `revoked` belong to the users-service.
`req[r]` is a goroutine: program counter and the locals later steps use.
`faults` counts failures by kind.  `creator` and `confirmed` are history, read
by no action.

*Actions.*  Every external call is one action, named after the function that
makes it: `FetchUser` and `CheckToken` are the two calls of `validateConnection`;
`GetActiveSession`, `CreateSession`, `DeleteSession`, `GetSessionByID` and
`UpdateSessionStatus` are SQL statements together with the branch their result
decides; each creation and deletion of `SetUpTopologyFor` and
`DeleteTopologyFor` is a step through `SetUpOrder` and `TearDownOrder`.  Code
between two calls touches no shared state and belongs to the call before it.

*Failures.*  `Fault(kind)` guards every failing alternative.  A failed call that
writes has had its effect or not; a set-up that fails leaves what it has
created; a tear-down logs and goes on; the rollback's DELETE is dropped with its
error.  `Crash` ends all requests in progress.  `Panic` ends one: while another
handler replaces the connection, `m.channel` may be nil, and gin recovers the
handler that used it.  That it takes another handler is what `NilMeansConnecting`
and `SerialNoPanic` show of `AmqpMiddleware`.

*Abstractions.*

* An answer of the users-service is success, refusal or failure; which status and
  body it has is chosen in `HttpAnswers`.  The fault `"verdict"` is an answer of
  `/tokens/validate` that says only in its body, which the code does not look at,
  that the token is not valid.
* A token is accepted for every user: the pairing of tokens and users is the
  users-service's affair.  With one user nothing depends on it;
  `SerialActiveMayConnect` names it as a hypothesis and `SessionIsolation` assumes it
  (`PresentOwnTokens`).
* The number of publish attempts is not counted; a failed attempt may be
  repeated or give up.
* A start can take the confirmation of another publisher's message whenever the
  service has more than one request slot.  `Notifier` is stricter (another call
  must be running, as long as the broker refuses nothing), so this has more
  behaviours than the code and never fewer.  In the same way a declaration can
  take another's reply.  That a crossed reply makes an operation fail is one of
  its broker failures.
* When the pool of session ids is used up, an INSERT fails.  This bounds the
  model; it does not happen in the program.

### SessionIsolation

The runs of `SessionLifecycle` have one user, because what disturbs a session is
another request for the same user.  That requests for different users do not disturb
one another is a claim of its own: nothing in the program keeps them apart but the
user's name in every query, queue and broker user.  `IsolationNext` is `Next` of
`SessionLifecycle` for clients that present their own tokens, the users in `Careful`
with at most one request in progress (`OneAtATime`).  A request is for the user it
names or the user of the session it names (`WorksFor`).  What holds of the serial runs
then holds of the careful users, with any number of overlapping requests of the
others: `CarefulOneActive`, `CarefulClosedIsFinal`, `CarefulHasTopology`
and `CarefulMayConnect`.

### HttpAnswers

`http[r]` is the status that handler `r` writes, chosen in the step that ends it
(`Answer`, `Told`).  A status is fixed (`Forbidden`, `NotFound`, `Conflict`,
`InternalError` of `schemas/errors.go`) or computed from an answer of the
users-service: its code (0 for a network error) and what its body is, a problem
document with a status, another JSON object, text, or cut off while it was read.
`FetchUserStatus`, `CheckTokenStatus`, `RevokeAuthorizationStatus` and
`RevokeTokenStatus` are the four pieces of code that turn such an answer into an
error, and they differ: `GET /users` propagates a 5xx as it is, the others answer
502; a network error of the token's revocation is a plain error and becomes 500;
an unreadable body is a 502, but not for `GET /users`; there a 200 whose JSON has no
`is_authorized` means "not authorized" and becomes 403.  `Written` is what gin does
with a status that is not positive: it keeps its default, 200.

*Assumptions.*  A client error of the users-service means that it has done
nothing (`Possible`).  A problem document carries the status of its answer.  The
statuses of an instance stand for their classes; success codes that a call does
not expect are not among them (they end as 502 in the revocations, are propagated
by `GET /users`, and count as success in the validation).

### AmqpMiddleware

*State.*  `conn` and `channel` are the fields `m.conn` and `m.channel`, as
numbers: connections are numbered as they are dialled, each has one channel with
the same number, and 0 is nil.  `confirms` is the content of `m.confirms_chan`
together with what the library has yet to deliver to it.  `openConns`,
`openChannels`, `pending` and `requested` (messages and requests sent and not yet
taken, per channel), `replies` (those that have arrived on a channel) and `copies`
(how often the broker has taken a message or executed an operation) are outside
the service.  `call[c]` is a call in progress, with its attempt and the channel it
has dialled or whose reply it waits for.  A behaviour begins with the connection
of `NewMiddleware`, or with that connection already lost.

*Actions.*  A call of `Publish` or of a queue operation begins with
`ensureConnection` (`EnsureConnection`, whose test `AllGood` is line 362), goes
through `Connect` if need be (`Dial`, `DialFails`, `ChannelFails`, `AssignConn`),
and then uses `m.channel`, whatever that is by then (`Panic`, `QueueOperation`,
`AwaitReply`, `PublishAttempt`, `AwaitConfirmation`).  A queue operation is a request
and the wait for a reply, any reply that arrives on the channel: if it is of the
other kind the operation fails, and whose it is nobody asks (`Fits`).  `Connect` assigns `m.channel` before
`m.conn`, and these are two steps.  Each call of a handler happens once, so the
sets `Messages`, `Declarations` and `Deletions` bound a behaviour; `MaxRunning` bounds how many
overlap.

*What the model turns on.*  Only channel 1, the one of `NewMiddleware`, is in
confirm mode, and `m.confirms_chan` listens to it for ever; when it is closed a
receive yields the zero value, which counts as "not acknowledged".  A later
channel takes messages and confirms nothing.  `PublishWithRouting` does not
ensure the connection between attempts.  A channel that a broker exception has
closed leaves `AllGood` true.

*External.*  The broker takes the messages of a channel in order, and its requests
in order (the order between the two kinds is left open), confirms or refuses the
messages, executes the requests and replies, and may close a channel; a connection
may be lost at any time; what was in flight then is taken up to some point and lost
after it (`Cut`).  These are modelled from how `src/` uses streadway/amqp.

### ServerLifecycle

*State.*  `env` says of each environment variable whether its value is right,
wrong, malformed or missing.  `starter` and `main` are the program counters of the
goroutine of `startServerGoroutine` and of the main goroutine; `http` and
`middleware` are `s.http` and `h.middleware`; `database` the connection pool;
`serverDone` and `osSignals` the two channels; `cancelled` the middleware's context;
`handler[h]` an HTTP request, which is free, running, or waiting for a service: in
`Connect` for the broker, or for an answer of the users-service, for which the HTTP
clients have no timeout.  `reachable` says which of the two can be reached.

*Actions.*  One per statement with an effect on shared state or that can block.
`LoadConfig` is `NewConfig`; `Ping` and `ExecuteInitSQL` are `NewDB`, which closes
the pool again when one of them fails; `Notify` and `StartServerGoroutine` are
`Run`.  In the other goroutine `NewMiddleware` blocks until the broker can be reached
with the RabbitMQ settings given (the error of `Confirm` or `Qos` is overwritten),
then `SetMiddleware`, `NewRouter`, `SetHttp`, `Listen`, `ReportDone`.
`NewRouter` waits in `Connect` for the broker if the connection is lost already, and
`DeclareExchangeFails` is the declaration of the exchange that is lost with a
connection that looked good: its error is ignored and start-up goes on.
`ServerStopped` and `SignalReceived` are the two cases of the `select`;
`ShutdownHttp`, `WaitHandlers`, `HandleSigterm`, `CloseDatabase` are
`ShutdownServer`; `Return` is the end of `HandleShutdown`.  A signal before
`signal.Notify` kills the process.

The unsynchronised accesses to `s.http` and `h.middleware` are taken as atomic
pointer accesses, old value or new.  Because `http.Shutdown` waits for handlers
before `HandleSigterm` cancels the context, `Resume` through `cancelled` is
written down and is never taken while a handler waits: that is the finding
`server_stuck`.

## Runs

Each run asks one question.  `FaultKinds` and `MaxFaults`, or `Events`, say what
goes wrong in an instance.

| Run | Instance | Shows |
|---|---|---|
| `serial` | 1 user, 2 tokens, 3 sessions, 1 request, any 2 failures or crashes, users-service statuses 200, 404 and 503 with every body but an error without status | `TypeOK`, `AtMostOneActive`, `ClosedIsFinal`, `ActiveHasTopology`, `ActiveIsConfirmed`, `NoLeftovers`, `ActiveMayConnect`, `OkMeansRevoked`, `OkMeansUsable`, `GatewayErrorPlace` |
| `unmarked` | 1 request, 1 failure of the users-service, whose error bodies have no status | violated: see Findings |
| `concurrent` | 1 user, 1 token, 2 sessions, 2 requests, any failure, panic or crash | `DistinctCreators`, `UpdatedMeansRevoked`, `TablePromise` |
| `live` | 1 user, 1 token, 2 sessions, 2 requests, no failure, fairness | `CompletedMeansRevoked`, `UnconfirmedEnds`, `ClosedIsTornDown` |
| `duplicate` | as `live` | violated: see Findings |
| `unrevoked` | 1 request, 1 failure of the users-service | violated: see Findings |
| `two_users` | 2 users with a token each, the first careful, 2 sessions, 2 requests, 1 failing publish | `CarefulOneActive`, `CarefulClosedIsFinal`, `CarefulHasTopology`, `CarefulMayConnect` |
| `amqp_serial` | 2 publishes, a declaration and a deletion, one at a time, 2 attempts, any 3 faults | `TypeOK`, `OkMeansDone`, `OneConnection`, `FailureNeedsRefusals` |
| `amqp_overlap` | 2 publishes and 2 declarations, 2 at a time, a connection perhaps lost before, 1 more loss or failing channel, fairness | `ConfirmationsBalance`, `RepliesBalance`, `NoMoreOkThanDone`, `NilMeansConnecting`, `NoDuplicates`, `OncePerAttempt`, `NotifierPromise`, `EveryCallEnds` |
| `amqp_reconnected` | 2 publishes, one at a time, 1 loss | violated: see Findings |
| `server_all` | at most one wrong, malformed or missing setting, 2 handlers, 2 signals, every event, fairness | `TypeOK`, `HandlersKeepResources`, `AcceptingMeansReady`, `ExitClosesDatabase`, `ShutdownEnds`, `FailureReported`, `StartUpEnds`, `SignalEndsCleanly` |
| `server_stuck` | right settings, 2 handlers, services that go and stay away | violated: see Findings |

Why the bounds are enough to be interesting.  One user is where the hazards are:
everything two sessions share is addressed by user.  In `two_users` each user has one
slot's worth of overlap with the other, and the failing publish makes the other's start
roll back, which is the step that reaches furthest.  Two requests show every
pairwise race between handlers.  Two sessions let a tear-down for one meet the
start of the other; three let a slot open, close and open again after a failure.
Two failures allow a failure during the clean-up after a failure.  Two attempts
have a first and a last one, and no more are told apart.  Three faults let the
connection be lost, a channel that cannot be opened in between, and the next
connection be lost again; in `amqp_overlap` the first loss lies before the first
call.  With two declarations one can succeed on the other's reply before it has been
executed itself (`OkMeansDone` does not hold of that instance).  Operations of different
kinds, where one fails on the other's reply, do not overlap in a run: a deletion more would
not finish with the liveness property.  `RepliesMatch` and `NoUnearnedSuccess` are proved
for any operations of both kinds.  One
mistake in the settings shows what each of them does.  Two signals are one for the shutdown and one that comes
during it.  Tokens, session ids, slots and messages are permuted in the runs
without liveness properties.

Every process can end, and TLC's deadlock check is on, except in `server_stuck`:
`Quiet` and `Ended` stand for a service that has answered all calls and a process
that is over.  There start-up waits for a broker that may never come.

What holds depends on the circumstances, and the properties are grouped so.
Under every interleaving and failure only the weak promises hold: who inserted
two active sessions of one user, `TablePromise`, `UpdatedMeansRevoked`.  Without
overlap there is one active session and a closed one stays closed.  An active
session has its topology only if in addition database and process have not
failed so far: a committed INSERT that is reported as failed, or a crash after
it, leaves an active session without resources on which each later start
"reconnects".  The broker is left clean only if set-up has not failed half-way.
`NotifierPromise` leaves out refusals: after a refusal a message's own publish
may already have failed when another call takes its confirmation.

## Findings

* `duplicate`: two overlapping starts of one user both query, find nothing, and
  insert.  `models.ErrActiveSessionExists` ("an active session already exists
  for the user") is returned by nothing, and the schema has no constraint that
  would refuse the second row.
* `unrevoked`: `SetSessionStatusToCompleted` "sets the session status to
  COMPLETED and revokes user authorization"; when a revocation fails after the
  UPDATE the repeated request is answered with a conflict.
* `unmarked`: "4xx errors are propagated", but by decoding the body into an
  `ErrorResponse`.  A JSON body without a `status` member, like the `{"detail": ...}`
  that `validateConnection` expects of the same service, gives status 0, gin writes
  200, and the caller believes the session's token revoked.
* `amqp_reconnected`: after "Reconnected to RabbitMQ successfully" the channel is
  not in confirm mode.  Every attempt delivers the message and counts as failed,
  so each start from then on is announced five times and rolled back.
* `server_stuck`: with handlers in `Connect` and the broker gone,
  `ShutdownServer` waits for ever for what only its next line would cancel,
  although `Connect` expects a context "cancelled due to shutdown signal".

Beside these runs the models have behaviours that other instances reach, or these
instances beyond what their properties speak of:

* Two publishes overlap, the connection is lost, and one takes the other's confirmation:
  it reports "Published message to exchange" for a message the broker never took
  (`OkMeansDone` with two calls at a time).
* A completion and a timeout of one session both read `IN_PROGRESS`, and the second UPDATE,
  which names the session only, replaces the status of the first (`ClosedIsFinal` in the
  instance of `live`).
* Between the UPDATE of a timeout and its tear-down the user starts again, is told "Client
  connected successfully with new session", and loses that session's broker user and
  queues to the tear-down, which goes by user.
* After a crash between the INSERT and the notification every later start of the user is
  told "Client reconnected to existing session": no client was ever connected to it and
  its topology does not exist.
* The broker closes the channel and not the connection; `ensureConnection` finds "All
  good", now and for ever, and every call on the channel fails.
* A signal while the other goroutine is still connecting makes `ShutdownServer` call
  `Shutdown` on a nil server.  `HandleShutdown` closes `osSignals` when the server has
  stopped, and `signal.Notify` still delivers to it: the next signal is a panic before
  the shutdown is done.
* With event `"confirm"` the nil middleware is used, which is a panic.  With a wrong
  RabbitMQ setting, of which only the form of the port is checked, start-up does not end.

`NewConfig` requires `RABBITMQ_PUBLIC_IP`, which `.env.example` does not name.

## Fairness

*SessionLifecycle.*  Weak fairness of `Handler(r)` for each request: a goroutine
that can take its next step eventually does.  The Go scheduler gives that, as
long as no call blocks for ever; the HTTP clients have no timeout, so the
liveness properties speak of executions in which every call returns.  Nothing is
assumed of the environment: no request ever has to arrive and the dispatcher
never has to act.  `HttpAnswers` has safety properties only.

*AmqpMiddleware.*  Weak fairness of `Proceed(c)` for each call, which includes
that `Connect` reaches a broker in the end (it retries for ever), and of
`BrokerTakes(k)` and `BrokerExecutes(k)`: the broker deals with what it receives.
No fault has to happen, and no call has to begin.

*ServerLifecycle.*  Weak fairness of each of the two goroutines (the main one is
`Main`, then `Shutdown`) and of each handler's progress.  Nothing is assumed of the
services: the properties state the condition under which they hold,
`<>[]AllReachable`, `<>[]BrokerUp`, or for `server_stuck` that the users-service
answers.

## Proofs

Proved by TLAPS for all values of the constants, under `ConstantsAssumption`
(`None` is no user, token or session; the fault kinds are known; the bound on
faults is a natural number; the sets may be infinite), `AnswersAssumption` (the
statuses are HTTP statuses), `IsolationAssumption` (each token has a holder; careful
users are users), `MiddlewareAssumption` (finitely many calls, each of
one kind, positive bounds) and `ServerAssumption` (environments are environments).
Every invariant, action property and refinement that a passing run checks is a theorem,
except those listed under *Only model-checked*.

### Session

The theorems come in three groups, by what they need.

Whatever fails and however requests overlap:

* `TypeCorrect`: `Spec => []TypeOK`.  `TypeOK` is not inductive: a step that
  writes `broker[req[r].user]` needs the user to be assigned.  `TypeInv` adds
  that stored rows name a user, a token and a creator, that announced sessions
  are stored, and that the locals a handler still uses are assigned.
  `GotoEffect`, `AdvanceEffect`, `InsertEffect`, `UpdateEffect` say what the
  steps of the program counters do, `LocalsKept` and `MoveTypeInv` what follows.
* `CreatorsDiffer`: `Spec => []DistinctCreators`.  The invariant `CreatorInv`
  adds `CheckedFree`: when a slot is about to insert, the active sessions of its
  user were all inserted by other slots.  The query establishes it, and only the
  slot itself could break it.
* `UpdatedRevokes`: `Spec => []UpdatedMeansRevoked`, from `TokenInv` (a handler
  works with its row's token, and past the revocation that token is revoked),
  `TokenKept` and `RevokedKept`.
* `KeepsTablePromise`: `Spec => TablePromise`, the refinement.  `TableInv` says
  that a start owns the row it inserted until it answers (no other slot's start
  works on it, its client has not been told) and that confirmed sessions are
  stored.  `StepTable` maps every step to a step of `SessionTable` or a stutter.
* `OkRevoked`: `AnswersSpec => []OkMeansRevoked` if no body is a JSON object without
  a status; with such bodies it is false (finding `unmarked`).  `OkInv` says that
  who is told 200 has reached `connected`, `reconnected` or `updated`; `CallStatuses`
  that no other way through the code that reads an answer ends in a 200.  The run
  checks it for one request, the theorem is about any number.

Until certain failures happen, however requests overlap:

* `ActiveConfirmed`: `Spec => []ActiveIsConfirmed`, until the database fails or the
  process crashes.  `ConfirmInv`: every active session was confirmed or a start is
  still at work on it.  `ActiveSince` says where active sessions come from,
  `RowLeft` that a start leaves its row only confirmed or deleted.  The run checks
  it for one request only.
* `CompletedRevoked`: `CompletedMeansRevoked` until the users-service, the database
  or the process fails, and `NoFaultsCompletedRevoked` where they cannot.
  `RevokingInv`: the token of a completed session is revoked or a request is at
  `revokeAuth` or `revokeToken` with this session; `TokenInv` makes what that
  request revokes the session's own token.  The run `unrevoked` shows that it
  does not survive a failed revocation.

Requests that do not overlap (`OneSlot`: any two slots are the same), whatever
fails, crashes included, unless said otherwise:

* `SerialAtMostOneActive`: `AtMostOneActive`, from `CreatorsDiffer`.
* `SerialClosedIsFinal`: `ClosedIsFinal`.  `OwnInv` carries it and most of what
  follows: from its SELECT or INSERT to its UPDATE or DELETE the row a handler works
  on is active and its user's; after the UPDATE it is closed and the user has no
  active session.
* `SerialActiveHasTopology`: `TopologyInv` adds that a set-up at step *i* has created
  the first *i* - 1 resources of `SetUpOrder` (`Made`); `BrokerShrinks` that only
  rollback and tear-down take resources away, and `OwnInv` that their user has no
  other active session.
* `SerialNoLeftovers`: `LeftoverInv` says the same of what a tear-down has deleted
  (`Gone`) and that a user without active session whom nobody is clearing has
  nothing left.  `Gone` is intersected with what this service creates, because the
  dispatcher may declare its inputs queue again after it was deleted.
* `SerialActiveMayConnect`: `ActiveMayConnect`, under the hypothesis that a token
  belongs to one user who alone presents it (`PresentOwnTokens`).  It is needed:
  the model lets any user present any token (see Abstractions), and closing one
  user's session would revoke a token under which another has one open.
  The program sends the token with the user's id and leaves the pairing to the
  users-service; with the run's one user the hypothesis holds.
* `SerialOkUsable` and `SerialGatewayErrors`: `OkMeansUsable` and
  `GatewayErrorPlace`.  `GatewayInv` adds that only requests that have ended have
  an answer; `ToldGateway` and `EndsWhere` that a 502 is written for calls to the
  users-service only.

Users with one request at a time among others who overlap (`IsolationSpec`), whatever
fails, crashes included:

* `IsolatedOneActive`: `CarefulOneActive`.  The invariant adds `CheckedAlone`: a slot
  about to insert for a careful user still has found no active session.  A second INSERT
  for that user would come from another slot at work for him (`InsertWorksFor`), and
  there is none (`OneAtATimeInvariant`).
* `IsolatedClosedIsFinal`: `CarefulClosedIsFinal`.  `HoldsRow`: a careful user's row that
  a handler may still update or delete is active and that handler is at work for the
  user; `OnlyHolderWrites` says that nobody else writes rows, so between the check and
  the UPDATE nobody has.
* `IsolatedMayConnect`: `CarefulMayConnect`.  `RowUserInv` and `HeldInv` say that what is
  revoked belongs to the user the revoking request works for (`RevokesForUser`).  So a
  revocation cannot reach what a careful user's start was shown, because it would be that
  user's second request (`StartKeepsCredentials`), and not an active session's token or
  user either, because a careful user whose session is being revoked has no active one
  (`RevokedAlone`, `ActiveKeepsCredentials`).

`HandlerEffect`, `HandlerOrder`, `OthersStep`, `EnvironmentEffect` and `TableEffect`
summarise the actions once for all of these; `FaultShows` and `OnlyBefore` are what
is needed of the counts of failures.

### Middleware

* `AmqpTypeCorrect`: `TypeOK`, which says that the connections ever dialled are no
  more than calls and faults allow.  `DialInv` counts: a call dials once, and
  again only after `conn.Channel()` failed.
* `ConfirmationsMatch`: `Spec => []ConfirmationsBalance`.  `BalanceInv` adds
  `FirstInUse`: as long as channel 1 is open it is the one everybody uses and
  nobody is in `Connect`, for `AllGood` is then true.  So a message goes to
  channel 1 exactly when a handler starts to wait (`WaitingJoins`), the broker
  moves it from the messages to the confirmations, and one confirmation goes
  when one handler stops waiting (`WaitingLeaves`).
* `RepliesMatch`: `RepliesBalance`, on every channel, by the same count.
* `NilIsReplaced`: `Spec => []NilMeansConnecting`.  It is inductive: only a
  failed `conn.Channel()` makes the channel nil, and the handler it happens to
  stays in `Connect`.
* `NoUnearnedSuccess`: `NoMoreOkThanDone`.  `OnceInv`: each operation is requested,
  executed and answered once; `ClaimInv`: for each kind, the operations that have
  succeeded and the replies still under way are together no more than those executed.
* `NothingTwice`: `NoDuplicates`, from `FirstInUse` and `OnceTaken`: while channel 1
  is open and nothing was refused every confirmation is positive, so no publisher
  tries again.
* `PromiseKept`: `"nack" \notin FaultKinds /\ Spec => NotifierPromise`, the refinement.
  A publish that succeeds without its message takes the confirmation of another
  that still waits: `EntitledInv` bounds the confirmations by the publishers that
  wait and whose messages the broker has.  With refusals the promise
  is not kept: a refused publish may fail while its later
  confirmation is taken by another.

One call at a time (`MaxRunning = 1`):

* `SerialNoPanic`: `NoPanic`.  The call that panics is not in `Connect`, so by
  `NilIsReplaced` another one is (`PanicNeedsOverlap`), and `AloneRunning` says
  there is no other.
* `SerialOkMeansDone`: `OkMeansDone`.  `PromptInv` and `OwnReplies`: what is under way
  on the channel of a call that waits, request, reply, message or confirmation, is
  its own, and nothing is when none waits.
* `SerialOneConnection`: `OneConnection`.  `SpareInv` counts the open connections
  besides the one in use, in and outside `Connect`.
* `SerialFailures`: `FailureNeedsRefusals`.  `RefusalInv`: while channel 1 is open,
  every attempt after the first was bought with a refusal.

### Server

`ServerInv` says what the program counters of the two goroutines imply about the
pool, the HTTP server, the middleware, the handlers, the context and the settings
examined so far (`MainInv`, `StarterInv`, `SettingsInv`).  It is inductive and gives
`ServerTypeCorrect` (`TypeOK`), `HandlersKeepWhatTheyUse` (`HandlersKeepResources`),
`OnlyReadyAccepts` (`AcceptingMeansReady`) and `ExitsCloseDatabase`
(`ExitClosesDatabase`) for any number of handlers and signals and for all values of
the environment variables, where the run allows one mistake in them.

### Only model-checked

`UnconfirmedEnds`, `ClosedIsTornDown`, `EveryCallEnds`, `ShutdownEnds`,
`FailureReported`, `StartUpEnds` and `SignalEndsCleanly` are liveness properties that
need fairness, which is out of the prover's reach, as are ENABLED and induction over
data.  They stay with TLC, and so do the five violations.  `OncePerAttempt` would need
the number of copies of a message under way summed over all channels, an induction over
data; `CarefulHasTopology` is not proved yet.

The inductive invariants of `SessionSerial_proofs` were checked by TLC on the
instances of `serial` and `concurrent`, and with two users of one token each, before
they were proved.  One was corrected by it: the first `LeftoverInv` did not allow
for the inputs queue being declared again.

## Not modelled

Logging, route registration, the generated API documentation, and the rejection of
requests whose JSON is malformed or lacks a user or token (a 400 before any call)
are left out: they have no state or are pure I/O.  The optional settings only name
things in log lines.  `UpdateDispatcherStatus`, `GetSessionStatus`, `BindQueue` and
`Middleware.Close` are called by nothing.  Time is not modelled: delays between
attempts, the heartbeat and the timeouts of `NewDB` are nondeterministic waits or
failures.

## Plan

In order of importance; done parts are described above.

1. `SessionLifecycle`, `SessionTable`, their runs and theorems (done).
2. `AmqpMiddleware`, `Notifier`, their runs and first theorems (done).
3. `ServerLifecycle` from the configuration to the exit, and its runs (done).
4. `HttpAnswers`: what the caller is told (done).
5. `AmqpMiddleware` with the replies of queue operations (done).
6. Theorems about the middleware: types, replies, confirmations, `NotifierPromise`,
   and calls that do not overlap (done).
7. Theorems about the sessions and what the caller is told (done).
8. Theorems about the server (done).
9. `SessionIsolation`: requests of different users; its run and the theorems about rows
   and credentials (done).
10. Its theorem about topology.
11. `NoDuplicates` after refusals; the steps of the liveness properties that are safety
    (what a waiting handler waits for exists).
