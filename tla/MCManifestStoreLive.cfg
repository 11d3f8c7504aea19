\* Two calls sharing one client: refinement of the registry, and liveness.
SPECIFICATION FairSpec
CONSTANTS
    Call = {c1, c2}
    Name = {n1}
    Facts = {f1, f2, fOut}
    OutOfRange = {fOut}
    NoRow = NoRow
    Damaged = Damaged
    Unread = Unread
    PoolSize = 1
PROPERTIES
    
    CallsAnswered
