\* Any proof, true or not, for batches of up to four rows.
SPECIFICATION FairSpec
CONSTANTS
    a = a
    b = b
    z = z
    Leaf <- SmallLeaf
    Batch <- SmallBatch
    Foreign <- SmallForeign
    MaxCount = 5
    MaxPath = 3
    MaxPadding = 1
INVARIANTS
    TypeOK
    InclusionBinds
    InclusionPathUnique
    InclusionMember
    LoopsReturnFunctions
\* The verifier answers once and stops.
CHECK_DEADLOCK FALSE
