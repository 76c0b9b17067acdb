SPECIFICATION Spec
CONSTANTS
    Callers = {p1}
    Workers = {w1, w2}
    BUFSIZE = 3
    MAX_CONTEXTS = 4
    MAX_BYTES = 4
SYMMETRY Symmetry
INVARIANTS
    TypeOK
    AssertsHold
    OneDisconnect
    ReferencesKept
    EchoKept
CHECK_DEADLOCK FALSE
