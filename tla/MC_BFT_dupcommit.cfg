\* A network that may deliver a message to a member twice: commit signatures.
CONSTANTS
    p = p
    a = a
    b = b
    Node <- MCNode
    Proposer = p
    ProposeShortcut = FALSE
    MaxDup = 1
    Forged <- MCNoForged
    Readies <- MCReadies
SPECIFICATION Spec
INVARIANTS
    MajoritySigned
