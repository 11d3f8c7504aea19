\* Two calls: enough for a rival seed, and for a read after a seed.
SPECIFICATION Spec
CONSTANTS
    Call = {c1, c2}
    tA = tA
    tB = tB
    pA = pA
    pB = pB
    nA = nA
    nB = nB
    fA = fA
    fA2 = fA2
    fB = fB
    fBad = fBad
    fLate = fLate
    Tenant = {tA, tB}
    Project = {pA, pB}
    Name = {nA, nB}
    Facts = {fA, fA2, fB, fBad, fLate}
    OwnerOf <- MCOwnerOf
    ProjectOf <- MCProjectOf
    RefsIn <- MCRefsIn
    CreatedAt <- MCCreatedAt
    Micros = 10
    Earliest <- MCEarliest
    Latest = 25
    Malformed = {fBad}
    Offered <- MCOffered
    None = None
INVARIANTS
    TypeOK
    EntryArgumentsStored
    InstantExact
    TenantsApart
    AuthorityHeld
