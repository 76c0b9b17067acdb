SPECIFICATION Spec
CONSTANTS
    Threads = {t1}
    Block = {b1}
    Sizes = {16, 4000}
    Bands <- CodeBands
    HEADER = 16
    MAX_ALLOC_SIZE = 4096
INVARIANTS
    NeverFaults
