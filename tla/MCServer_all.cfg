SPECIFICATION FairSpec
CONSTANTS
    h1 = h1
    h2 = h2
    Handlers <- TwoHandlers
    Environments <- OneMistake
    Events <- EveryEvent
    MaxSignals = 2
INVARIANTS
    TypeOK
    HandlersKeepResources
    AcceptingMeansReady
    ExitClosesDatabase
PROPERTIES
    ShutdownEnds
    FailureReported
    StartUpEnds
    SignalEndsCleanly
