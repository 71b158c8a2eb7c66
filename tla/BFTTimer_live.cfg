\* Proposer and listener, full round: every wait ends.  A process stops after a panic or after Start returns, so deadlock is not an error here.
CONSTANTS
    Roles = {"propose", "listen"}
    ProposeShortcut = FALSE
SPECIFICATION Spec
CHECK_DEADLOCK FALSE
INVARIANTS
    TypeOK
PROPERTIES
    Termination
