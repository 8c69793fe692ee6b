SPECIFICATION Spec
CONSTANTS
    m1 = m1
    m2 = m2
    d1 = d1
    d2 = d2
    e1 = e1
    Messages <- TwoMessages
    Declarations <- OneDeclaration
    Deletions <- OneDeletion
    MaxRunning = 1
    MAX_RETRIES = 2
    FaultKinds <- EveryFault
    MaxFaults = 3
INVARIANTS
    TypeOK
    OkMeansDone
    OneConnection
    FailureNeedsRefusals
SYMMETRY MessageSymmetry
