\* Concurrent create-and-send and send requests against one mempool, with
\* broadcasts that may fail.
CONSTANTS
    p1 = p1
    bad = bad
    Params = {p1}
    BadParams = {bad}
    Garbage = Garbage
    Calls <- MCCalls
SPECIFICATION Spec
INVARIANT ErrorMeansNotAccepted
