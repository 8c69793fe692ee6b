SPECIFICATION IsolationSpec
CONSTANTS
    u1 = u1
    u2 = u2
    t1 = t1
    t2 = t2
    s1 = s1
    s2 = s2
    s3 = s3
    r1 = r1
    r2 = r2
    none = none
    Users <- TwoUsers
    Tokens <- TwoTokens
    Holder <- OwnToken
    Careful <- OneUser
    Sessions <- TwoSessions
    Requests <- TwoRequests
    None <- none
    FaultKinds <- PublishFaults
    MaxFaults = 1
SYMMETRY IsolationSymmetry
INVARIANTS
    CarefulOneActive
    CarefulHasTopology
    CarefulMayConnect
PROPERTIES
    CarefulClosedIsFinal
