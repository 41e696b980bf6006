\* Every export of three logs, unspoilt.
SPECIFICATION SystemSpec
CONSTANTS
    MaxInt = 32767
    OverflowChecks = FALSE
    Packs <- NoPacks
    TenantChain <- MCTenantChain
    OwnChain <- MCOwnChain
    Schedules <- ManySchedules
    Faults <- NoFaults
    MaxFaults = 0
    AuditRows = 1
    None = None
    NotHex = NotHex
    Stray = Stray
    TenantId = TenantId
    Other = Other
    RowKey = RowKey
    FleetKey = FleetKey
    TenantKey = TenantKey
INVARIANTS
    SystemTypeOK
    NoFalseAlarm
\* A report is the end of a run.
CHECK_DEADLOCK FALSE
