SPECIFICATION Spec
CONSTANTS
    Documents <- EditedDocuments
    NoMachine = NoMachine
    UndeclaredEvent = "UNDECLARED_EVENT"
INVARIANTS
    TypeOK
    RevocationSuspends
PROPERTIES
    PredecessorNeverReopens
\* A refused document ends the check: no machine is derived.
CHECK_DEADLOCK FALSE
