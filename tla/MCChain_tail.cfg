\* One row or anchor missing from an export.
SPECIFICATION SystemSpec
CONSTANTS
    MaxInt = 32767
    OverflowChecks = FALSE
    TenantChain <- NoTenants
    ChainPacks <- NoPacks
    Writes <- MCWrites
    Faults <- OneOmission
    Tables = {t1, t2}
    t1 = t1
    t2 = t2
    created = created
    updated = updated
    deleted = deleted
    MaxFaults = 1
    None = None
    NotHex = NotHex
    Stray = Stray
    AnchorKey = AnchorKey
INVARIANT
    TailAsDeclared
\* A report is the end of a run.
CHECK_DEADLOCK FALSE
