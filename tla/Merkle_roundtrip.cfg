\* Four shards: a correct path and root verified by VerifyCrossShardBlockUTXO.
CONSTANTS
    S = 4
    LastBytes = {0, 1, 3, 5}
    MaxTx = 2
    MaxOut = 2
SPECIFICATION Spec
INVARIANTS
    RoundTrip
