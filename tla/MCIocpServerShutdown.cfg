SPECIFICATION Spec
CONSTANTS
    MAX_IOTHREAD = 2
    Processors <- MCProcessors
INVARIANTS
    CompletionHasContext
CHECK_DEADLOCK FALSE
