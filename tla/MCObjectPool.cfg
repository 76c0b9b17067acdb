SPECIFICATION Spec
CONSTANTS
    ALLOC_COUNT = 3
    MAX_CHUNKS = 2
    nullptr = nullptr
    Wild = Wild
INVARIANTS
    TypeOK
    FreeOrInUse
    SafeBelowCapacity
CHECK_DEADLOCK FALSE
