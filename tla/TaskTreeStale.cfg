CONSTANTS
    Memory = {idle, t1, t2, t3}
    Idle = idle
    Dynamic = {t2, t3}
    MaxCreated = 5
    NULL = NULL
SPECIFICATION Spec
PROPERTY
    DeletesItsDescendants
CHECK_DEADLOCK FALSE
