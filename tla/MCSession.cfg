SPECIFICATION Spec
CONSTANTS
    Callers = {p1, p2}
    Workers = {w1, w2}
    Context = {c1, c2, c3}
    SEND_BUFFER_SIZE = 3
    Lengths = {0, 1, 2}
    MAX_BYTES = 5
SYMMETRY Symmetry
INVARIANTS
    TypeOK
    ReferencesExact
    PendingCountExact
    StreamKept
