SPECIFICATION FairSpec
CONSTANTS
    h1 = h1
    h2 = h2
    Handlers <- TwoHandlers
    Environments <- NoMistake
    Events <- ServicesGone
    MaxSignals = 1
PROPERTIES
    ShutdownEndsAnyway
CHECK_DEADLOCK FALSE
