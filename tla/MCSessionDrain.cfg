SPECIFICATION FairSpec
CONSTANTS
    Callers = {p1}
    Workers = {w1, w2}
    Context = {c1, c2, c3}
    SEND_BUFFER_SIZE = 2
    Lengths = {0, 1}
    MAX_BYTES = 2
PROPERTIES
    IoDrains
