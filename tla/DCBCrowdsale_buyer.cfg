\* One buyer paying one or two notes for a priced bond: where the bonds of the response go.
CONSTANTS
    DCB = DCB
    Buyers = {u1}
    NoPk = NoPk
    BondPrices <- MCBondPrices
    BondIDs = {"b1", "b2"}
    Values = {1, 3}
    MaxNotes = 2
    MaxOuts = 2
SPECIFICATION Spec
INVARIANT
    BondsToBuyer
