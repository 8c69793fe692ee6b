-------------------------- MODULE ServerLifecycle --------------------------
(***************************************************************************)
(* Start-up and shutdown of the process.  main reads the configuration     *)
(* from the environment variables and opens the database.  Run starts a    *)
(* goroutine that builds the middleware, the router and the HTTP server    *)
(* and then serves; the main goroutine waits in HandleShutdown for a       *)
(* signal or for the end of the server, and takes the components down.     *)
(* The two share the fields s.http and h.middleware without a lock.        *)
(* Handlers of HTTP requests are represented by what shutdown depends on:  *)
(* whether they still run, and whether they wait in Connect for the broker *)
(* or in a request to the users-service.                                   *)
(*                                                                         *)
(* net/http and os/signal are external: Shutdown closes the listeners and  *)
(* then waits for all handlers, without limit as its context has none;     *)
(* serving returns ErrServerClosed once Shutdown has begun; a signal that  *)
(* finds the channel full is dropped, and one that finds it closed panics; *)
(* before signal.Notify a signal kills the process.                        *)
(*                                                                         *)
(* A definition marked "Mutant of" is not part of the specification: it is *)
(* the definition after it as a plausible mistake would have it.           *)
(***************************************************************************)
EXTENDS Naturals

CONSTANTS
    Environments, \* what the environment variables may be in this instance
    Handlers,     \* slots for HTTP requests
    Events,       \* what the environment does in this instance
    MaxSignals    \* bound on the signals sent

\* The broker, or the users-service, goes away; it comes back; the database cannot
\* be reached or refuses init.sql; putting the channel in confirm mode fails; the
\* listener cannot be opened, or serving ends with an error; a signal arrives during
\* start-up; a signal arrives after a failed server began to shut down.
AllEvents == {"outage", "recovery", "database", "confirm", "listen", "early", "late"}

\* The variables NewConfig requires, by the part of the service that uses them.
BrokerSettings ==
    {"RABBITMQ_HOST", "RABBITMQ_PORT", "RABBITMQ_USER", "RABBITMQ_PASSWORD"}
DatabaseSettings ==
    {"POSTGRES_HOST", "POSTGRES_PORT", "POSTGRES_USER", "POSTGRES_PASSWORD", "POSTGRES_DB"}
AddressSettings == {"HOST", "PORT"}
RequestSettings == {"USERS_SERVICE_URL", "RABBITMQ_PUBLIC_IP"}
Settings == BrokerSettings \cup DatabaseSettings \cup AddressSettings \cup RequestSettings

\* The only settings that are parsed.
IntegerSettings == {"RABBITMQ_PORT", "POSTGRES_PORT"}

\* "wrong": a value that names no broker, database or address there is.
Values == {"right", "wrong", "malformed", "missing"}

ASSUME ServerAssumption ==
    /\ Environments \subseteq [Settings -> Values]
    /\ Events \subseteq AllEvents
    /\ MaxSignals \in Nat

VARIABLES
    env,          \* the environment variables
    starter,      \* where the goroutine of startServerGoroutine is
    main,         \* where main, Run and HandleShutdown are
    http,         \* s.http: "nil", "set", or "shutdown" once Shutdown was called
    middleware,   \* h.middleware: "nil" or "set"
    cancelled,    \* the middleware's context
    database,     \* "none", "open" or "closed"
    serverDone,   \* the result in the channel serverDone, or "none"
    osSignals,    \* the channel: "none" before signal.Notify, "empty", "signal" or "closed"
    source,       \* the case of the select that was taken: "signal", or the server's result
    handler,      \* "free", "running", or the service it waits for
    reachable,    \* which of Services can be reached and answer
    accepting,    \* the listener was opened: there can be connections
    signals       \* signals sent so far

startVars == <<starter, http, middleware, serverDone, accepting>>
stopVars == <<main, cancelled, database, source>>
world == <<env, reachable, signals>>
vars == <<startVars, stopVars, osSignals, handler, world>>

Services == {"broker", "users"}
BrokerUp == "broker" \in reachable

\* The process ends: main returns or exits with an error, something panics, or a
\* signal is not handled.
Over == {"exitOk", "exitError", "panicked", "killed"}
Up == main \notin Over

At(where, pc) == where = pc /\ Up

Panics == main' = "panicked"

Init ==
    /\ env \in Environments
    /\ starter = "none"
    /\ main = "loadConfig"
    /\ http = "nil"
    /\ middleware = "nil"
    /\ cancelled = FALSE
    /\ database = "none"
    /\ serverDone = "none"
    /\ osSignals = "none"
    /\ source = "none"
    /\ handler = [h \in Handlers |-> "free"]
    /\ reachable \in {Services} \cup {s \in SUBSET Services : "outage" \in Events}
    /\ signals = 0
    /\ accepting = FALSE

-----------------------------------------------------------------------------
(* main, up to the start of the other goroutine.                           *)

Right(settings) == \A s \in settings : env[s] = "right"

\* NewConfig: every setting is there, and the two ports are 32-bit integers.
Accepted ==
    /\ \A s \in Settings : env[s] # "missing"
    /\ \A s \in IntegerSettings : env[s] # "malformed"

LoadConfig ==
    /\ At(main, "loadConfig")
    /\ main' = IF Accepted THEN "ping" ELSE "exitError"
    /\ UNCHANGED <<startVars, cancelled, database, source, osSignals, handler, world>>

\* Mutant of NewDBFails: the connection pool is not closed.
NewDBFailsOpen == main' = "exitError" /\ database' = "open"

\* NewDB closes what it has opened, NewServer returns the error and main exits.
NewDBFails == main' = "exitError" /\ database' = "closed"

\* Mutant of Ping: sql.Open alone, which connects to nothing.
PingNothing ==
    /\ At(main, "ping")
    /\ main' = "initSQL" /\ database' = "open"
    /\ UNCHANGED <<startVars, cancelled, source, osSignals, handler, world>>

\* sql.Open and PingContext, which gives up after 5 seconds.
Ping ==
    /\ At(main, "ping")
    /\ \/ Right(DatabaseSettings) /\ main' = "initSQL" /\ database' = "open"
       \/ ~Right(DatabaseSettings) /\ NewDBFails
       \/ "database" \in Events /\ NewDBFails
    /\ UNCHANGED <<startVars, cancelled, source, osSignals, handler, world>>

\* init.sql is executed; if there is no such file it is skipped.
ExecuteInitSQL ==
    /\ At(main, "initSQL")
    /\ \/ main' = "notify" /\ UNCHANGED database
       \/ "database" \in Events /\ NewDBFails
    /\ UNCHANGED <<startVars, cancelled, source, osSignals, handler, world>>

Notify ==
    /\ At(main, "notify")
    /\ osSignals' = "empty" /\ main' = "startServer"
    /\ UNCHANGED <<startVars, cancelled, database, source, handler, world>>

StartServerGoroutine ==
    /\ At(main, "startServer")
    /\ starter' = "newMiddleware" /\ main' = "select"
    /\ UNCHANGED <<http, middleware, serverDone, accepting, cancelled, database, source,
                   osSignals, handler, world>>

-----------------------------------------------------------------------------
(* The goroutine of startServerGoroutine.                                  *)

\* Mutant of NewMiddleware: its error ends the goroutine without a result.
NewMiddlewareGivesUp ==
    /\ At(starter, "newMiddleware") /\ BrokerUp /\ Right(BrokerSettings)
    /\ \/ starter' = "setMiddleware"
       \/ "confirm" \in Events /\ starter' = "finished"
    /\ UNCHANGED <<http, middleware, serverDone, accepting, stopVars,
                   osSignals, handler, world>>

\* NewMiddleware dials until it succeeds, if need be for ever.  Its context cannot be
\* cancelled yet: HandleSigterm needs the middleware.  An error of Confirm or Qos is
\* overwritten.
NewMiddleware ==
    /\ At(starter, "newMiddleware") /\ BrokerUp /\ Right(BrokerSettings)
    /\ \/ starter' = "setMiddleware"
       \/ "confirm" \in Events /\ starter' = "setNoMiddleware"
    /\ UNCHANGED <<http, middleware, serverDone, accepting, stopVars,
                   osSignals, handler, world>>

SetMiddleware ==
    /\ \/ At(starter, "setMiddleware") /\ starter' = "newRouter" /\ middleware' = "set"
       \/ At(starter, "setNoMiddleware") /\ starter' = "newRouterWithout" /\ UNCHANGED middleware
    /\ UNCHANGED <<http, serverDone, accepting, stopVars, osSignals, handler, world>>

\* NewRouter declares the exchange, over a connection that may have to be
\* replaced.  Without a middleware it is a nil dereference.
NewRouter ==
    /\ \/ /\ At(starter, "newRouter") /\ BrokerUp
          /\ starter' = "setHttp" /\ UNCHANGED main
       \/ /\ At(starter, "newRouterWithout")
          /\ Panics /\ UNCHANGED starter
    /\ UNCHANGED <<http, middleware, serverDone, accepting, cancelled, database, source,
                   osSignals, handler, world>>

\* The broker goes away after ensureConnection has looked: the declaration fails,
\* and its error is ignored.
DeclareExchangeFails ==
    /\ At(starter, "newRouter") /\ ~BrokerUp
    /\ starter' = "setHttp"
    /\ UNCHANGED <<http, middleware, serverDone, accepting, stopVars, osSignals, handler, world>>

SetHttp ==
    /\ At(starter, "setHttp")
    /\ http' = "set" /\ starter' = "listen"
    /\ UNCHANGED <<middleware, serverDone, accepting, stopVars, osSignals, handler, world>>

\* ListenAndServe returns at once when Shutdown was called before, and with an error
\* when there is no such address.
Listen ==
    /\ At(starter, "listen")
    /\ \/ http = "set" /\ Right(AddressSettings) /\ starter' = "serving" /\ accepting' = TRUE
       \/ http = "set" /\ ~Right(AddressSettings) /\ starter' = "failed" /\ UNCHANGED accepting
       \/ http = "shutdown" /\ starter' = "stopped" /\ UNCHANGED accepting
    /\ UNCHANGED <<http, middleware, serverDone, stopVars,
                   osSignals, handler, world>>

\* ErrServerClosed is not an error for startServer.
ServerCloses ==
    /\ At(starter, "serving") /\ http = "shutdown"
    /\ starter' = "stopped"
    /\ UNCHANGED <<http, middleware, serverDone, accepting, stopVars,
                   osSignals, handler, world>>

\* The port is taken, or accepting fails for good.
ServerFails ==
    /\ "listen" \in Events
    /\ starter \in {"listen", "serving"} /\ Up /\ http = "set"
    /\ starter' = "failed"
    /\ UNCHANGED <<http, middleware, serverDone, accepting, stopVars, osSignals, handler, world>>

\* Mutants of Result: the error is not passed on; ErrServerClosed counts as one.
ResultWithError == "error"
ResultWithoutError == "nil"
Result == IF starter = "failed" THEN "error" ELSE "nil"

ReportDone ==
    /\ starter \in {"stopped", "failed"} /\ Up
    /\ serverDone' = Result
    /\ starter' = "finished"
    /\ UNCHANGED <<http, middleware, accepting, stopVars, osSignals, handler, world>>

-----------------------------------------------------------------------------
(* The main goroutine: HandleShutdown and ShutdownServer.                  *)

Exit(result) == main' = IF result = "nil" THEN "exitOk" ELSE "exitError"

\* Mutant of HasStopped: the receive does not wait.
HasStoppedAlready == TRUE
HasStopped == serverDone # "none"

\* The select: the server has stopped, or a signal has arrived.
ServerStopped ==
    /\ At(main, "select") /\ HasStopped
    /\ source' = serverDone /\ serverDone' = "none"
    /\ osSignals' = "closed"
    /\ main' = "shutdownHttp"
    /\ UNCHANGED <<starter, http, middleware, accepting, cancelled, database,
                   handler, world>>

SignalReceived ==
    /\ At(main, "select") /\ osSignals = "signal"
    /\ source' = "signal" /\ osSignals' = "empty"
    /\ main' = "shutdownHttp"
    /\ UNCHANGED <<startVars, cancelled, database, handler, world>>

\* http.Shutdown closes the listeners; there may be no server yet.
ShutdownHttp ==
    /\ At(main, "shutdownHttp")
    /\ \/ http = "nil" /\ Panics /\ UNCHANGED http
       \/ http # "nil" /\ http' = "shutdown" /\ main' = "waitHandlers"
    /\ UNCHANGED <<starter, middleware, serverDone, accepting, cancelled, database, source,
                   osSignals, handler, world>>

\* Mutant of HandlersDone: http.Close, which does not wait for handlers.
HandlersClosed == TRUE
HandlersDone == \A h \in Handlers : handler[h] = "free"

\* ... and waits until no handler runs.
WaitHandlers ==
    /\ At(main, "waitHandlers") /\ HandlersDone
    /\ main' = "handleSigterm"
    /\ UNCHANGED <<startVars, cancelled, database, source, osSignals, handler, world>>

HandleSigterm ==
    /\ At(main, "handleSigterm")
    /\ cancelled' = (middleware = "set")
    /\ main' = "closeDatabase"
    /\ UNCHANGED <<startVars, database, source, osSignals, handler, world>>

\* Mutant of StopsFirst: after either trigger the server's result is awaited.
StopsFirstAlways == TRUE
StopsFirst == source = "signal"

\* After a signal the server's result is still to come.
CloseDatabase ==
    /\ At(main, "closeDatabase")
    /\ database' = "closed"
    /\ main' = IF StopsFirst THEN "awaitDone" ELSE "return"
    /\ UNCHANGED <<startVars, cancelled, source, osSignals, handler, world>>

Return ==
    /\ \/ At(main, "awaitDone") /\ serverDone # "none" /\ Exit(serverDone) /\ serverDone' = "none"
       \/ At(main, "return") /\ Exit(source) /\ UNCHANGED serverDone
    /\ UNCHANGED <<starter, http, middleware, accepting, cancelled, database, source,
                   osSignals, handler, world>>

-----------------------------------------------------------------------------
(* Handlers and the environment.                                           *)

\* Connections that are kept alive are served even after accepting has failed.
Request(h) ==
    /\ Up /\ accepting /\ http = "set"
    /\ handler[h] = "free"
    /\ handler' = [handler EXCEPT ![h] = "running"]
    /\ UNCHANGED <<startVars, stopVars, osSignals, world>>

\* ensureConnection finds the connection lost; or the users-service does not answer
\* a request, for which the HTTP client has no timeout.
Wait(h, service) ==
    /\ Up /\ handler[h] = "running" /\ service \notin reachable
    /\ handler' = [handler EXCEPT ![h] = service]
    /\ UNCHANGED <<startVars, stopVars, osSignals, world>>

\* The service can be reached again, or the context of Connect is cancelled.
Resume(h, service) ==
    /\ Up /\ handler[h] = service
    /\ \/ service \in reachable
       \/ service = "broker" /\ cancelled
    /\ handler' = [handler EXCEPT ![h] = "running"]
    /\ UNCHANGED <<startVars, stopVars, osSignals, world>>

Answer(h) ==
    /\ Up /\ handler[h] = "running"
    /\ handler' = [handler EXCEPT ![h] = "free"]
    /\ UNCHANGED <<startVars, stopVars, osSignals, world>>

Outage(service) ==
    /\ Up /\ service \in reachable /\ "outage" \in Events
    /\ reachable' = reachable \ {service}
    /\ UNCHANGED <<startVars, stopVars, osSignals, handler, env, signals>>

Recovery(service) ==
    /\ Up /\ service \notin reachable /\ "recovery" \in Events
    /\ reachable' = reachable \cup {service}
    /\ UNCHANGED <<startVars, stopVars, osSignals, handler, env, signals>>

Signal ==
    /\ Up /\ signals < MaxSignals
    /\ http = "nil" => "early" \in Events
    /\ osSignals = "closed" => "late" \in Events
    /\ signals' = signals + 1
    /\ \/ osSignals = "none" /\ main' = "killed" /\ UNCHANGED osSignals
       \/ osSignals = "closed" /\ Panics /\ UNCHANGED osSignals
       \/ osSignals \in {"empty", "signal"} /\ osSignals' = "signal" /\ UNCHANGED main
    /\ UNCHANGED <<startVars, cancelled, database, source, handler, env, reachable>>

Main == LoadConfig \/ Ping \/ ExecuteInitSQL \/ Notify \/ StartServerGoroutine

Starter ==
    NewMiddleware \/ SetMiddleware \/ NewRouter \/ SetHttp \/ Listen
    \/ ServerCloses \/ ReportDone

Shutdown ==
    SignalReceived \/ ServerStopped \/ ShutdownHttp \/ WaitHandlers \/ HandleSigterm
    \/ CloseDatabase \/ Return

Serving(h) == (\E service \in Services : Resume(h, service)) \/ Answer(h)

Environment ==
    \/ \E h \in Handlers : Request(h) \/ \E service \in Services : Wait(h, service)
    \/ \E service \in Services : Outage(service) \/ Recovery(service)
    \/ Signal \/ DeclareExchangeFails \/ ServerFails

\* The process has ended.
Ended == ~Up /\ UNCHANGED vars

Next == Main \/ Starter \/ Shutdown \/ Environment \/ (\E h \in Handlers : Serving(h)) \/ Ended

Spec == Init /\ [][Next]_vars

\* Goroutines proceed when they can.  Nothing is assumed of the services.
FairSpec ==
    /\ Spec
    /\ WF_vars(Main \/ Shutdown) /\ WF_vars(Starter)
    /\ \A h \in Handlers : WF_vars(Serving(h))
=============================================================================
