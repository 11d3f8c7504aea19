SPECIFICATION FairSpec
CONSTANTS
    tA = tA
    tB = tB
    cX = cX
    cY = cY
    Malformed = Malformed
    Throws = Throws
    None = None
    Call = {c1}
    Target = {tA, tB}
    Capability = {cX, cY}
    CapabilityLimit = 1
    Int64Maximum = 1
    Uint64Maximum = 3
    RawQuery <- MCRawQuery
    RawResult <- MCRawResult
    RawPolicy <- MCRawPolicy
    RawInstant <- MCRawInstant
INVARIANTS
    TypeOK
    CandidateMeetsQuery
PROPERTIES
    JudgedWhileFresh
    SettledCallsAnswered
