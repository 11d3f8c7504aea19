CONSTANTS
    w1 = w1
    w2 = w2
    Worker <- Workers
    MaxSteps = 6
    MaxGeneration = 2
    MaxSignals = 1
    MaxFaults = 2
SPECIFICATION FairSpec
PROPERTIES
    ImplementsContract
    ApprovalActivates
CHECK_DEADLOCK FALSE
