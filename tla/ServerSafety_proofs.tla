------------------------- MODULE ServerSafety_proofs -------------------------
(***************************************************************************)
(* What start-up and shutdown keep true at every step, for any number of   *)
(* handlers, any environment variables and any events: the two goroutines  *)
(* and the handlers share no lock, so all of it rests on where each of     *)
(* them can be.                                                            *)
(***************************************************************************)
EXTENDS ServerProperties, TLAPS

(* Where main is before the other goroutine starts, while the pool is      *)
(* open, once Shutdown was called, and once no handler was left.           *)
StartingUp == {"loadConfig", "ping", "initSQL", "notify", "startServer"}
Opened == {"initSQL", "notify", "startServer", "select", "shutdownHttp",
           "waitHandlers", "handleSigterm", "closeDatabase"}
AfterShutdown == {"waitHandlers", "handleSigterm", "closeDatabase", "awaitDone", "return"}
AfterHandlers == AfterShutdown \ {"waitHandlers"}

(* Where the other goroutine is once it has the middleware, and once there *)
(* is an HTTP server.                                                      *)
HasHttp == {"listen", "serving", "stopped", "failed", "finished"}
HasMiddleware == {"newRouter", "setHttp"} \cup HasHttp

(* What the position of main says about the database, the HTTP server, the *)
(* handlers and the context.                                               *)
MainInv ==
    /\ main \in StartingUp => starter = "none"
    /\ main \in {"loadConfig", "ping"} => database = "none"
    /\ main \in Opened => database = "open"
    /\ main \in {"awaitDone", "return", "exitOk"} => database = "closed"
    /\ main = "exitError" => database # "open"
    /\ main \in AfterShutdown => http = "shutdown"
    /\ main \in AfterHandlers => HandlersDone
    /\ Up /\ cancelled => main \in {"closeDatabase", "awaitDone", "return"}

(* What the position of the other goroutine says about the fields the two  *)
(* share and about the listener.                                           *)
StarterInv ==
    /\ http = "nil" <=> starter \notin HasHttp
    /\ starter \in HasMiddleware => middleware = "set"
    /\ accepting => starter \in HasHttp \ {"listen"}
    /\ ~accepting => HandlersDone

(* What has been found right in the environment variables by then.         *)
SettingsInv ==
    /\ main \in StartingUp \ {"loadConfig"} => Accepted
    /\ main \in {"initSQL", "notify", "startServer"} => Right(DatabaseSettings)
    /\ starter # "none" => Accepted /\ Right(DatabaseSettings)
    /\ starter \notin {"none", "newMiddleware"} => Right(BrokerSettings)
    /\ accepting => Right(AddressSettings)

ServerInv == TypeOK /\ HandlersKeepResources /\ MainInv /\ StarterInv /\ SettingsInv

-----------------------------------------------------------------------------
LEMMA InitServerInv == Init => ServerInv
<1> SUFFICES ASSUME Init
             PROVE  ServerInv
  OBVIOUS
<1>1. TypeOK
  <2>1. env \in [Settings -> Values] /\ signals \in 0..MaxSignals
    BY ServerAssumption DEF Init
  <2>2. reachable \subseteq Services
    BY DEF Init
  <2> QED
    BY <2>1, <2>2 DEF Init, TypeOK
<1>2. HandlersKeepResources /\ MainInv /\ StarterInv /\ SettingsInv
  BY DEF Init, HandlersKeepResources, MainInv, StarterInv, SettingsInv, StartingUp, Opened,
         AfterShutdown, AfterHandlers, HasHttp, HasMiddleware, HandlersDone, Up, Over
<1> QED
  BY <1>1, <1>2 DEF ServerInv

(* main, up to the start of the other goroutine.                           *)
LEMMA MainServerInv ==
    ASSUME ServerInv, Main
    PROVE  ServerInv'
<1> USE DEF ServerInv, TypeOK, HandlersKeepResources, MainInv, StarterInv, SettingsInv,
            StartingUp, Opened, AfterShutdown, AfterHandlers, HasHttp, HasMiddleware,
            HandlersDone, Up, Over, At, startVars, stopVars, world, Accepted, Right
<1>1. CASE LoadConfig
  BY <1>1 DEF LoadConfig
<1>2. CASE Ping
  BY <1>2 DEF Ping, NewDBFails
<1>3. CASE ExecuteInitSQL
  BY <1>3 DEF ExecuteInitSQL, NewDBFails
<1>4. CASE Notify
  BY <1>4 DEF Notify
<1>5. CASE StartServerGoroutine
  BY <1>5 DEF StartServerGoroutine
<1> QED
  BY <1>1, <1>2, <1>3, <1>4, <1>5 DEF Main

(* The goroutine of startServerGoroutine.                                  *)
LEMMA StarterServerInv ==
    ASSUME ServerInv, Starter \/ DeclareExchangeFails \/ ServerFails
    PROVE  ServerInv'
<1> USE DEF ServerInv, TypeOK, HandlersKeepResources, MainInv, StarterInv, SettingsInv,
            StartingUp, Opened, AfterShutdown, AfterHandlers, HasHttp, HasMiddleware,
            HandlersDone, Up, Over, At, startVars, stopVars, world, Accepted, Right
<1>1. CASE NewMiddleware
  BY <1>1 DEF NewMiddleware
<1>2. CASE SetMiddleware
  BY <1>2 DEF SetMiddleware
<1>3. CASE NewRouter
  BY <1>3 DEF NewRouter, Panics
<1>4. CASE SetHttp
  BY <1>4 DEF SetHttp
<1>5. CASE Listen
  <2>1. CASE http = "shutdown"
    BY <1>5, <2>1 DEF Listen
  <2>2. CASE http = "set" /\ Right(AddressSettings)
    BY <1>5, <2>2 DEF Listen
  <2>3. CASE http = "set" /\ ~Right(AddressSettings)
    BY <1>5, <2>3 DEF Listen
  <2> QED
    BY <1>5, <2>1, <2>2, <2>3 DEF Listen
<1>6. CASE ServerCloses
  BY <1>6 DEF ServerCloses
<1>7. CASE ServerFails
  BY <1>7 DEF ServerFails
<1>8. CASE ReportDone
  BY <1>8 DEF ReportDone, Result
<1>9. CASE DeclareExchangeFails
  BY <1>9 DEF DeclareExchangeFails
<1> QED
  BY <1>1, <1>2, <1>3, <1>4, <1>5, <1>6, <1>7, <1>8, <1>9 DEF Starter

(* HandleShutdown and ShutdownServer.                                      *)
LEMMA ShutdownServerInv ==
    ASSUME ServerInv, Shutdown
    PROVE  ServerInv'
<1> USE DEF ServerInv, TypeOK, HandlersKeepResources, MainInv, StarterInv, SettingsInv,
            StartingUp, Opened, AfterShutdown, AfterHandlers, HasHttp, HasMiddleware,
            HandlersDone, Up, Over, At, startVars, stopVars, world, Accepted, Right
<1>1. CASE SignalReceived
  BY <1>1 DEF SignalReceived
<1>2. CASE ServerStopped
  BY <1>2 DEF ServerStopped, HasStopped
<1>3. CASE ShutdownHttp
  BY <1>3 DEF ShutdownHttp, Panics
<1>4. CASE WaitHandlers
  BY <1>4 DEF WaitHandlers
<1>5. CASE HandleSigterm
  BY <1>5 DEF HandleSigterm
<1>6. CASE CloseDatabase
  BY <1>6 DEF CloseDatabase, StopsFirst
<1>7. CASE Return
  BY <1>7 DEF Return, Exit
<1> QED
  BY <1>1, <1>2, <1>3, <1>4, <1>5, <1>6, <1>7 DEF Shutdown

(* Requests, services that come and go, signals.                           *)
LEMMA WorldServerInv ==
    ASSUME ServerInv,
           \/ Environment /\ ~DeclareExchangeFails /\ ~ServerFails
           \/ \E h \in Handlers : Serving(h)
    PROVE  ServerInv'
<1> USE DEF ServerInv, TypeOK, HandlersKeepResources, MainInv, StarterInv, SettingsInv,
            StartingUp, Opened, AfterShutdown, AfterHandlers, HasHttp, HasMiddleware,
            HandlersDone, Up, Over, startVars, stopVars, world, Accepted, Right
<1>1. ASSUME NEW h \in Handlers, Request(h) PROVE ServerInv'
  BY <1>1 DEF Request
<1>2. ASSUME NEW h \in Handlers, NEW service \in Services, Wait(h, service)
      PROVE  ServerInv'
  BY <1>2 DEF Wait
<1>3. ASSUME NEW h \in Handlers, Serving(h) PROVE ServerInv'
  <2>1. handler[h] # "free"
    BY <1>3 DEF Serving, Resume, Answer, Services
  <2>2. /\ handler' \in [Handlers -> {"free", "running"} \cup Services]
        /\ \A g \in Handlers : handler'[g] # "free" => handler[g] # "free"
        /\ UNCHANGED <<startVars, stopVars, osSignals, world>>
    BY <1>3, <2>1 DEF Serving, Resume, Answer
  <2> QED
    BY <2>2
<1>4. ASSUME NEW service \in Services, Outage(service) \/ Recovery(service)
      PROVE  ServerInv'
  BY <1>4 DEF Outage, Recovery
<1>5. CASE Signal
  BY <1>5, ServerAssumption DEF Signal, Panics
<1> QED
  BY <1>1, <1>2, <1>3, <1>4, <1>5 DEF Environment

LEMMA StepServerInv == ServerInv /\ [Next]_vars => ServerInv'
<1> SUFFICES ASSUME ServerInv, [Next]_vars
             PROVE  ServerInv'
  OBVIOUS
<1>1. CASE UNCHANGED vars
  BY <1>1
  DEF vars, startVars, stopVars, world, ServerInv, TypeOK, HandlersKeepResources, MainInv,
      StarterInv, SettingsInv, HandlersDone, Up, Accepted, Right
<1> QED
  BY <1>1, MainServerInv, StarterServerInv, ShutdownServerInv, WorldServerInv
  DEF Next, Ended, Environment

LEMMA ServerInvariant == Spec => []ServerInv
BY InitServerInv, StepServerInv, PTL DEF Spec

-----------------------------------------------------------------------------
(* The variables hold values of their types.                               *)
THEOREM ServerTypeCorrect == Spec => []TypeOK
<1>1. ServerInv => TypeOK
  BY DEF ServerInv
<1> QED
  BY <1>1, ServerInvariant, PTL

(* A handler that runs keeps its database and a context that is not        *)
(* cancelled, for any number of handlers and however signals, failures of  *)
(* the server and outages fall.                                            *)
THEOREM HandlersKeepWhatTheyUse == Spec => []HandlersKeepResources
<1>1. ServerInv => HandlersKeepResources
  BY DEF ServerInv
<1> QED
  BY <1>1, ServerInvariant, PTL

(* Connections are accepted only with the middleware, an open database and *)
(* settings that are right, for all values of the environment variables,   *)
(* not only with a single mistake.                                         *)
THEOREM OnlyReadyAccepts == Spec => []AcceptingMeansReady
<1>1. Settings \ RequestSettings
        \subseteq BrokerSettings \cup DatabaseSettings \cup AddressSettings
  BY DEF Settings
<1>2. ServerInv => AcceptingMeansReady
  BY <1>1
  DEF ServerInv, MainInv, StarterInv, SettingsInv, AcceptingMeansReady, Opened, HasHttp,
      HasMiddleware, Right
<1> QED
  BY <1>2, ServerInvariant, PTL

(* Every exit of the process by itself has closed the connection pool.     *)
THEOREM ExitsCloseDatabase == Spec => []ExitClosesDatabase
<1>1. ServerInv => ExitClosesDatabase
  BY DEF ServerInv, MainInv, ExitClosesDatabase
<1> QED
  BY <1>1, ServerInvariant, PTL
=============================================================================
