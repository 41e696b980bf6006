\* A manifest whose list of anchor keys was emptied.
SPECIFICATION SystemSpec
CONSTANTS
    MaxInt = 32767
    OverflowChecks = FALSE
    Packs <- NoPacks
    TenantChain <- MCTenantChain
    OwnChain <- MCOwnChain
    Schedules <- PairSchedule
    Faults <- Alterations
    MaxFaults = 1
    AuditRows = 0
    None = None
    NotHex = NotHex
    Stray = Stray
    TenantId = TenantId
    Other = Other
    RowKey = RowKey
    FleetKey = FleetKey
    TenantKey = TenantKey
INVARIANTS
    AnchorsListed
\* A report is the end of a run.
CHECK_DEADLOCK FALSE
