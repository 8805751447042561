SPECIFICATION Spec
CONSTANTS
    Kernel = Kernel
    Task = {idle, t1}
    Idle = idle
    Ports = {"mega128", "mega2560"}
    StackSize = 65
    OwnUses = {8, 9, 22, 23}
    MaxNested = 2
    MaxOpen = 2
INVARIANTS
    ContextTypeOK
    ContextKept
    SectionsBalance
    StackSuffices
PROPERTIES
    CriticalKeepsProcessor
CHECK_DEADLOCK FALSE
