SPECIFICATION FairSpec
CONSTANTS
    m1 = m1
    m2 = m2
    d1 = d1
    d2 = d2
    e1 = e1
    Messages <- TwoMessages
    Declarations <- TwoDeclarations
    Deletions <- NoOperation
    MaxRunning = 2
    MAX_RETRIES = 2
    FaultKinds <- SomeFaults
    MaxFaults = 1
INVARIANTS
    ConfirmationsBalance
    RepliesBalance
    NoMoreOkThanDone
    NilMeansConnecting
    NoDuplicates
    OncePerAttempt
PROPERTIES
    EveryCallEnds
    NotifierPromise
