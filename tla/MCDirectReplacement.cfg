SPECIFICATION Spec
CONSTANTS
    Documents <- TransitionsEdited
    NoMachine = NoMachine
    UndeclaredEvent = "UNDECLARED_EVENT"
PROPERTY DirectReplacementForbidden
\* A refused document ends the check: no machine is derived.
CHECK_DEADLOCK FALSE
