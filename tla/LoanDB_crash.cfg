CONSTANTS
    l1 = l1
    h1 = h1
    h2 = h2
    h3 = h3
    missing = missing
    LoanIDs = {l1}
    Calls <- MCCalls
    Payments <- MCPayments
    Missing = missing
    PutMayFail = TRUE
    MayCrash = TRUE
SPECIFICATION Spec
INVARIANT
    LoanTxsIndexed
