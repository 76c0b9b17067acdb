SPECIFICATION FairRegistrySpec
CONSTANTS
    Threads = {t1, t2, t3}
    WRITE_SLOTS = 4
    None = None
    Players = {p1, p2}
    MAX_ISSUE = 3
INVARIANTS
    TypeOK
    MutualExclusion
    FlagCountsWriters
    RegistryTypeOK
    NumbersDiffer
    RegistryExact
PROPERTIES
    ImplementsMutex
    LockIsHandedOn
