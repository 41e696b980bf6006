\* The largest i64 in a build with overflow checks.
SPECIFICATION Spec
CONSTANTS
    MaxInt = 32767
    OverflowChecks = TRUE
    Texts <- MCEnds
    TenantChain <- MCTenantChain
    OwnChain <- MCOwnChain
    None = None
    NotHex = NotHex
    TenantId = TenantId
    Other = Other
    Stray = Stray
    RowKey = RowKey
    FleetKey = FleetKey
    TenantKey = TenantKey
    WorkerKey = WorkerKey
    table = table
INVARIANT
    NeverPanics
\* A process that has exited stops.
CHECK_DEADLOCK FALSE
