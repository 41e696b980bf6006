\* The exporter's own proofs of every row, and every batch against every other.
SPECIFICATION FairSpec
CONSTANTS
    a = a
    b = b
    z = z
    Leaf <- HonestLeaf
    Batch <- HonestBatch
    Foreign <- NoForeign
    MaxCount = 0
    MaxPath = 0
    MaxPadding = 0
INVARIANTS
    RoundTrip
    RootIsRFC6962
    RecomputeExact
PROPERTY
    CallsReturn
\* The verifier answers once and stops.
CHECK_DEADLOCK FALSE
