\* Both formats, whole, spoilt and mixed, through every way in, to the end.
SPECIFICATION FairSpec
CONSTANTS
    MaxInt = 32767
    OverflowChecks = TRUE
    Texts <- MCTexts
    TenantChain <- MCTenantChain
    OwnChain <- MCOwnChain
    None = None
    NotHex = NotHex
    TenantId = TenantId
    Other = Other
    Stray = Stray
    RowKey = RowKey
    FleetKey = FleetKey
    TenantKey = TenantKey
    WorkerKey = WorkerKey
    table = table
INVARIANTS
    ZeroIsOneExport
    NoFalseAlarm
    Conformance
PROPERTY
    InvocationEnds
\* A process that has exited stops.
CHECK_DEADLOCK FALSE
