CONSTANTS
    w1 = w1
    w2 = w2
    Worker <- Workers
    MaxAttempts = 2
    MaxApprovals = 2
    MaxKills = 1
SPECIFICATION FairSpec
INVARIANTS
    TypeOK
    ResultTruthful
PROPERTY
    ImplementsContract
    ApprovalActivates
CHECK_DEADLOCK FALSE
