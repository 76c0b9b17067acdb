SPECIFICATION Spec
CONSTANTS
    MAX_IOTHREAD = 4
    Processors <- MCProcessors
INVARIANTS
    TypeOK
    StartupIsSafe
CHECK_DEADLOCK FALSE
