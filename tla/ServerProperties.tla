-------------------------- MODULE ServerProperties --------------------------
(* What start-up and shutdown guarantee.                                   *)
EXTENDS ServerLifecycle

(* The variables hold values of their types.                               *)
TypeOK ==
    /\ env \in [Settings -> Values]
    /\ starter \in {"none", "newMiddleware", "setMiddleware", "setNoMiddleware", "newRouter",
                   "newRouterWithout", "setHttp", "listen", "serving",
                   "stopped", "failed", "finished"}
    /\ main \in {"loadConfig", "ping", "initSQL", "notify", "startServer",
                "select", "shutdownHttp", "waitHandlers", "handleSigterm",
                "closeDatabase", "awaitDone", "return"} \cup Over
    /\ http \in {"nil", "set", "shutdown"}
    /\ middleware \in {"nil", "set"}
    /\ cancelled \in BOOLEAN
    /\ database \in {"none", "open", "closed"}
    /\ serverDone \in {"none", "nil", "error"}
    /\ osSignals \in {"none", "empty", "signal", "closed"}
    /\ source \in {"none", "nil", "error", "signal"}
    /\ main \in {"shutdownHttp", "waitHandlers", "handleSigterm",
                "closeDatabase", "awaitDone", "return"} => source # "none"
    /\ handler \in [Handlers -> {"free", "running"} \cup Services]
    /\ reachable \subseteq Services
    /\ accepting \in BOOLEAN
    /\ signals \in 0..MaxSignals

(* A handler that runs has its database and a context that is not          *)
(* cancelled: ShutdownServer takes them away only when no handler is left  *)
(* and none can begin.                                                     *)
HandlersKeepResources ==
    \A h \in Handlers : handler[h] # "free" => database = "open" /\ ~cancelled

(* HandleShutdown returns, or the process dies, once shutdown has begun or *)
(* a signal is waiting, if the broker can be reached and the users-service *)
(* answers from some time on.                                              *)
AllReachable == reachable = Services
Stopping == source # "none" \/ osSignals = "signal"
ShutdownEnds == <>[]AllReachable => (Stopping ~> ~Up)

(* When the server fails Run returns its error, whichever case of the      *)
(* select is taken, and when the middleware cannot be set up the process   *)
(* does not go on without it; or it dies.                                  *)
FailureReported ==
    <>[]AllReachable =>
        (starter \in {"failed", "setNoMiddleware"} ~> main \in {"exitError", "panicked"})

(* Requests are accepted only by a service that has what its handlers use, *)
(* a middleware, an open database and every setting but those that only    *)
(* requests read, although the goroutine that serves ignores the error of  *)
(* NewMiddleware and nothing orders it with the main goroutine.            *)
AcceptingMeansReady ==
    accepting =>
        /\ middleware = "set"
        /\ main = "select" => database = "open"
        /\ Accepted /\ Right(Settings \ RequestSettings)

(* A process that ends by itself has closed its connection pool, whether   *)
(* start-up failed half-way or the server was shut down.                   *)
ExitClosesDatabase ==
    main \in {"exitOk", "exitError"} => database # "open"

(* Start-up ends: the service accepts connections or the process is over,  *)
(* provided the settings for RabbitMQ, of which only the form of the port  *)
(* is ever checked, are right and the broker can be reached in the end.    *)
StartUpEnds ==
    <>[]BrokerUp /\ Right(BrokerSettings) => <>(accepting \/ ~Up)

(* Once there is an HTTP server a signal ends the process in order and     *)
(* with status 0, whatever the other goroutine is doing: about to listen,  *)
(* serving, or back from ListenAndServe; unless serving fails.  (Before    *)
(* that ShutdownServer finds no server and panics.)                        *)
Signalled ==
    /\ main = "select" /\ osSignals = "signal"
    /\ http = "set" /\ starter \notin {"failed", "finished"}
SignalEndsCleanly ==
    <>[]AllReachable => (Signalled ~> main = "exitOk" \/ starter = "failed")

-----------------------------------------------------------------------------
(* What a comment says and the code does not do.                           *)

(* A handler that waits for the broker is cancelled by the shutdown signal *)
(* ("Context cancelled due to shutdown signal"), so shutdown ends whether  *)
(* or not the broker can be reached.                                       *)
ShutdownEndsAnyway == <>[]("users" \in reachable) => (Stopping ~> ~Up)
=============================================================================
