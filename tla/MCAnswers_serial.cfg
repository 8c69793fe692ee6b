SPECIFICATION AnswersSpec
CONSTANTS
    u1 = u1
    t1 = t1
    t2 = t2
    s1 = s1
    s2 = s2
    s3 = s3
    r1 = r1
    r2 = r2
    none = none
    Users <- OneUser
    Tokens <- TwoTokens
    Sessions <- ThreeSessions
    Requests <- OneRequest
    None <- none
    FaultKinds <- AllFaults
    MaxFaults = 2
    Codes <- SomeCodes
    Bodies <- StatusInBody
SYMMETRY SerialSymmetry
INVARIANTS
    TypeOK
    AtMostOneActive
    ActiveHasTopology
    ActiveIsConfirmed
    NoLeftovers
    ActiveMayConnect
    OkMeansRevoked
    OkMeansUsable
    GatewayErrorPlace
PROPERTIES
    ClosedIsFinal
