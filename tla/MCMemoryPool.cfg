SPECIFICATION Spec
CONSTANTS
    Threads = {t1, t2}
    Block = {b1, b2, b3}
    Sizes = {16, 17, 32, 140, 200}
    Bands <- SmallBands
    HEADER = 16
    MAX_ALLOC_SIZE = 192
INVARIANTS
    TypeOK
    OnePlace
    SizesMarkFree
    BlocksFit
    CountsSettle
CHECK_DEADLOCK FALSE
