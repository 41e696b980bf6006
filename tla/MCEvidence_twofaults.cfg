\* Two faults that meet: lost or repeated lines, missing batches, a wrong
\* label, altered fields.
SPECIFICATION SystemSpec
CONSTANTS
    MaxInt = 32767
    OverflowChecks = FALSE
    Packs <- NoPacks
    TenantChain <- MCTenantChain
    OwnChain <- MCOwnChain
    Schedules <- PairSchedule
    Faults <- MeetingFaults
    MaxFaults = 2
    AuditRows = 0
    None = None
    NotHex = NotHex
    Stray = Stray
    TenantId = TenantId
    Other = Other
    RowKey = RowKey
    FleetKey = FleetKey
    TenantKey = TenantKey
INVARIANTS
    SovereignBatchExact
    FleetRowsLogged
    LossDetected
PROPERTY
    LedgerOfChains
\* A report is the end of a run.
CHECK_DEADLOCK FALSE
