CONSTANTS
    Memory = {idle, t1, t2, t3}
    Idle = idle
    Dynamic = {t2, t3}
    MaxCreated = 5
    NULL = NULL
SPECIFICATION Spec
INVARIANTS
    TreeTypeOK
    MemoryReturned
PROPERTIES
    HeadNeverMoves
    LookupsKept
    DeletionIsExact
\* Once a walk does not end the kernel has stopped.
CHECK_DEADLOCK FALSE
