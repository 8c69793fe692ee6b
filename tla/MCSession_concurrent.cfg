SPECIFICATION Spec
CONSTANTS
    u1 = u1
    t1 = t1
    t2 = t2
    s1 = s1
    s2 = s2
    s3 = s3
    r1 = r1
    r2 = r2
    none = none
    Users <- OneUser
    Tokens <- OneToken
    Sessions <- TwoSessions
    Requests <- TwoRequests
    None <- none
    FaultKinds <- AllFaults
    MaxFaults = 1
SYMMETRY Symmetry
INVARIANTS
    DistinctCreators
    UpdatedMeansRevoked
PROPERTIES
    TablePromise
