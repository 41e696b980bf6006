\* Every single fault, in every export of two logs and on its way.
SPECIFICATION SystemSpec
CONSTANTS
    MaxInt = 32767
    OverflowChecks = FALSE
    Packs <- NoPacks
    TenantChain <- MCTenantChain
    OwnChain <- MCOwnChain
    Schedules <- TwoSchedules
    Faults <- EachFault
    MaxFaults = 1
    AuditRows = 0
    None = None
    NotHex = NotHex
    Stray = Stray
    TenantId = TenantId
    Other = Other
    RowKey = RowKey
    FleetKey = FleetKey
    TenantKey = TenantKey
INVARIANTS
    TypeOK
    PassIsComplete
    PassIsSigned
    PassIsCovered
    PassIsRecomputed
    NoCheckSkipped
    NoFalseAlarm
    AnchorsConsecutive
    SeamHasNoGap
\* A report is the end of a run.
CHECK_DEADLOCK FALSE
