\* Quorum close racing the phase timer callback.
CONSTANTS
    Roles = {"propose", "listen"}
    ProposeShortcut = FALSE
SPECIFICATION Spec
CHECK_DEADLOCK FALSE
INVARIANTS
    NoTimerPanic
