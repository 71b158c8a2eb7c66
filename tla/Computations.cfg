\* Merkle paths for 8 shards and blocks of up to two transactions of up to two coins; inner-product proofs for witnesses of length 4 over Z_5 (every a, b with entries 0, 1, 4); proofs of up to two rounds serialised at the real point and scalar sizes; pad on 0..64; bond sales of up to two notes against up to three DCB outputs.
CONSTANTS
    S = 8
    LastBytes = {0, 1, 3, 5}
    MaxTx = 2
    MaxOut = 2
    Q = 5
    NVec = 4
    Gen <- MCGen
    HGen <- MCHGen
    U = 3
    PadMax = 64
    PointSize = 33
    BigIntSize = 32
    DCB = DCB
    Buyers = {u1}
    NoPk = NoPk
    BondPrices <- MCBondPrices
    BondIDs = {"b1", "b2"}
    Values = {1, 2, 3}
    MaxNotes = 2
    MaxOuts = 3
    Principles = {0, 5000, 20000}
    InterestsDue = {0, 7}
    Rates = {0, 1, 3}
    Maturities = {1, 2, 3}
    Deadlines = {0, 2}
    MaxHeight = 8
SPECIFICATION Spec
INVARIANTS
    MerklePathIsSiblings
    Completeness
    PadIsNextPowerOfTwo
    ProofBytesRoundTrip
    BondResponseBalanced
    VectorAlgebra
    DebtPerCompletedTerm
