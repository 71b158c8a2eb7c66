CONSTANTS
    b1 = b1
    b2 = b2
    b3 = b3
    o = o
    v = v
    junk = junk
    Board <- MCBoard
    Addr <- MCAddr
    LockerLists <- MCLockerLists
    Votes <- MCVotes
    Junk = junk
    MaxTx = 4
SPECIFICATION Spec
INVARIANT
    NoValidationPanic
