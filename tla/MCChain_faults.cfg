\* Every single fault, of the exporter or in transit, to every export.
SPECIFICATION SystemSpec
CONSTANTS
    MaxInt = 32767
    OverflowChecks = FALSE
    TenantChain <- NoTenants
    ChainPacks <- NoPacks
    Writes <- MCWrites
    Faults <- AllFaults
    Tables = {t1, t2}
    t1 = t1
    t2 = t2
    created = created
    updated = updated
    deleted = deleted
    MaxFaults = 1
    None = None
    NotHex = NotHex
    Stray = Stray
    AnchorKey = AnchorKey
INVARIANTS
    TypeOK
    NoFalseAlarm
    LossDetected
    OneRangeEach
    PassIsSigned
    AnchorsIssued
    PrefixAttested
PROPERTY
    LedgerOfTables
\* A report is the end of a run.
CHECK_DEADLOCK FALSE
