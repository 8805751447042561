SPECIFICATION Spec
CONSTANTS
    Kernel = Kernel
    Task = {idle}
    Idle = idle
    Ports = {"mega128", "mega2560"}
    StackSize = 65
    OwnUses = {8}
    MaxNested = 1
    MaxOpen = 1
INVARIANTS
    PreemptedOutsideSections
CHECK_DEADLOCK FALSE
