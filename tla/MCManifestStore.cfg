\* Three concurrent calls on one name, two clients in the pool: a seed, a
\* conflicting or identical rival, and a retry or a read.
SPECIFICATION Spec
CONSTANTS
    Call = {c1, c2, c3}
    Name = {n1}
    Facts = {f1, f2, fOut}
    OutOfRange = {fOut}
    NoRow = NoRow
    Damaged = Damaged
    Unread = Unread
    PoolSize = 2
SYMMETRY StoreSymmetry
INVARIANTS
    TypeOK
    OneEventPerManifest
    
    ReadsAreFresh
    PooledClientsClean
PROPERTIES
    NoLateEffect
