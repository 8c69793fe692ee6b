SPECIFICATION FairSpec
CONSTANTS
    m1 = m1
    m2 = m2
    d1 = d1
    d2 = d2
    e1 = e1
    Messages <- TwoMessages
    Declarations <- NoOperation
    Deletions <- NoOperation
    MaxRunning = 1
    MAX_RETRIES = 2
    FaultKinds <- Loss
    MaxFaults = 1
PROPERTIES
    ConnectedSucceeds
