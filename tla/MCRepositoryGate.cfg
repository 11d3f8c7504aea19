SPECIFICATION Spec
CONSTANTS
    Stages <- FixtureStages
    Names <- ChangeNames
    Possible <- Applicable
    Changed <- Apply
    Verdicts <- ExpectedVerdicts
    MaxChanges = 2
INVARIANTS
    VerdictsMatch
    LocalPackagesReserved
    CodeHasAuthority
    
    
    NoStaleBlocker
PROPERTIES
    ReviewedChanges
CHECK_DEADLOCK FALSE
