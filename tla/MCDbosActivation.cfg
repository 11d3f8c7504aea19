CONSTANTS
    e1 = e1
    e2 = e2
    c1 = c1
    Executor <- Executors
    Call = {c1}
    MaxGeneration = 2
    MaxFaults = 2
SPECIFICATION FairSpec
PROPERTIES
    StaleFenced
    ImplementsContract
    ApprovalActivates
CHECK_DEADLOCK FALSE
