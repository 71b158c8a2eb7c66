\* Round safety of a committee of three with forged messages, no duplicate delivery.
CONSTANTS
    p = p
    a = a
    b = b
    Node <- MCNode
    Proposer = p
    ProposeShortcut = FALSE
    MaxDup = 0
    Forged <- MCForged
    Readies <- MCReadies
SPECIFICATION Spec
INVARIANTS
    TypeOK
    MajoritySigned
    OnlyAuthenticSigned
PROPERTIES
    RoundRefinement
