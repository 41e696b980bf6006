\* A row exported under the wrong chain label.
SPECIFICATION SystemSpec
CONSTANTS
    MaxInt = 32767
    OverflowChecks = FALSE
    Packs <- NoPacks
    TenantChain <- MCTenantChain
    OwnChain <- MCOwnChain
    Schedules <- ShortSchedule
    Faults <- LabelFaults
    MaxFaults = 1
    AuditRows = 0
    None = None
    NotHex = NotHex
    Stray = Stray
    TenantId = TenantId
    Other = Other
    RowKey = RowKey
    FleetKey = FleetKey
    TenantKey = TenantKey
INVARIANTS
    EveryRowProven
\* A report is the end of a run.
CHECK_DEADLOCK FALSE
