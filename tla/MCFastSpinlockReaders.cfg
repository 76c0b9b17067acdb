SPECIFICATION FairSpec
CONSTANTS
    Threads = {t1, t2}
    WRITE_SLOTS = 4
    None = None
PROPERTIES
    ReadersEnter
